---------------------------- MODULE Spec2Model ----------------------------
(***************************************************************************)
(* A model of the BPM turn-by-turn transcoder of bpm_data_comparer.py      *)
(* (classes BPMDataParen and BPMDataSDDS) and of its batch driver          *)
(* convert_sdds_to_data.py.                                                *)
(*                                                                         *)
(* Text is modelled character by character: a text is a sequence of        *)
(* one-character strings.  A floating point sample is modelled as a signed *)
(* decimal  s * m * 10^e  (s in {1,-1}, m a natural number not divisible   *)
(* by 10 unless it is 0), which is exact for the short decimal literals    *)
(* the model feeds in and keeps the sign of a zero, as IEEE 754 does.      *)
(***************************************************************************)
EXTENDS Integers, Sequences, FiniteSets, TLC

(***************************************************************************)
(* Bounds of the model.                                                    *)
(***************************************************************************)
\* Number of lines of the row-format (.sdds) input file.
MaxLines == 2
\* Longest array and largest turn count handed to normalize.
MaxTurns == 3
\* Number of entries of the paren-format (.data) input file.
MaxEntries == 3
\* Number of entries of the folder the driver scans.
MaxFiles == 3
\* Lines (entries) of the file a session of method calls starts from.
MaxSessionInput == 2

(***************************************************************************)
(* Characters.                                                             *)
(***************************************************************************)
\* str.isspace / regex \s, restricted to the characters TLA+ can write.
Whitespace == {" ", "\t", "\n", "\r", "\f"}

DigitChars == {"0", "1", "2", "3", "4", "5", "6", "7", "8", "9"}

DigitVal(c) ==
    CASE c = "0" -> 0 [] c = "1" -> 1 [] c = "2" -> 2 [] c = "3" -> 3
      [] c = "4" -> 4 [] c = "5" -> 5 [] c = "6" -> 6 [] c = "7" -> 7
      [] c = "8" -> 8 [] c = "9" -> 9

DigitChar(d) ==
    CASE d = 0 -> "0" [] d = 1 -> "1" [] d = 2 -> "2" [] d = 3 -> "3"
      [] d = 4 -> "4" [] d = 5 -> "5" [] d = 6 -> "6" [] d = 7 -> "7"
      [] d = 8 -> "8" [] d = 9 -> "9"

\* Code point of the characters that occur in BPM names of the model
\* (Python compares strings code point by code point).
Ord(c) ==
    CASE c = "\"" -> 34 [] c = "(" -> 40 [] c = "A" -> 65 [] c = "B" -> 66
      [] c = "Q" -> 81 [] c = "a" -> 97 [] c = "b" -> 98 [] c = "q" -> 113
      [] c = "\n" -> 10 [] c = " " -> 32 [] c = "C" -> 67 [] c = "D" -> 68
      [] c = "E" -> 69 [] c = "F" -> 70 [] c = "." -> 46 [] c = "_" -> 95
      [] c = "c" -> 99 [] c = "d" -> 100 [] c = "n" -> 110 [] c = "o" -> 111
      [] c = "s" -> 115 [] c = "t" -> 116 [] c = "v" -> 118 [] c = "x" -> 120
      [] c = "y" -> 121 [] c = "z" -> 122
      [] OTHER -> 0

\* str.lower on one character, for the letters the model uses.
LowerChar(c) ==
    CASE c = "X" -> "x" [] c = "Y" -> "y" [] c = "Z" -> "z"
      [] c = "A" -> "a" [] c = "B" -> "b" [] c = "Q" -> "q" [] c = "W" -> "w"
      [] OTHER -> c

\* The character at position i of text t, or "" past its end.
At(t, i) == IF i >= 1 /\ i <= Len(t) THEN t[i] ELSE ""

\* The first position j >= i of t whose character is in S, or Len(t) + 1
\* (i itself when i is past the end).
FirstIn(t, i, S) ==
    IF i > Len(t) THEN i
    ELSE CHOOSE j \in i..(Len(t) + 1) :
            /\ j = Len(t) + 1 \/ t[j] \in S
            /\ \A k \in i..(j - 1) : t[k] \notin S

\* The first position j >= i of t whose character is not in S, or Len(t) + 1.
FirstNotIn(t, i, S) ==
    IF i > Len(t) THEN i
    ELSE CHOOSE j \in i..(Len(t) + 1) :
            /\ j = Len(t) + 1 \/ t[j] \notin S
            /\ \A k \in i..(j - 1) : t[k] \in S

\* From position i, the number of consecutive characters of t that are in S.
RunLen(t, i, S) == FirstNotIn(t, i, S) - i

\* From position i, the number of consecutive characters of t not in S.
RunLenNot(t, i, S) == FirstIn(t, i, S) - i

\* str.join of a sequence of texts (computed by halves).
RECURSIVE Join(_, _)
Join(sep, ts) ==
    IF ts = << >> THEN << >>
    ELSE IF Len(ts) = 1 THEN ts[1]
    ELSE LET h == Len(ts) \div 2
         IN  Join(sep, SubSeq(ts, 1, h)) \o sep
             \o Join(sep, SubSeq(ts, h + 1, Len(ts)))

\* Concatenation of a sequence of texts.
Concat(ts) == Join(<< >>, ts)

\* str.rstrip.
RStrip(t) ==
    LET keep == {j \in 1..Len(t) : t[j] \notin Whitespace}
    IN  IF keep = {} THEN << >>
        ELSE SubSeq(t, 1, CHOOSE j \in keep : \A k \in keep : k <= j)

\* str.strip.
Strip(t) ==
    LET r == RStrip(t)
        k == RunLen(r, 1, Whitespace)
    IN SubSeq(r, k + 1, Len(r))

\* str.lower.
Lower(t) == [i \in 1..Len(t) |-> LowerChar(t[i])]

(***************************************************************************)
(* Samples: signed decimals.                                               *)
(***************************************************************************)
RECURSIVE Pow10(_)
Pow10(k) == IF k <= 0 THEN 1 ELSE 10 * Pow10(k - 1)

\* Number of decimal digits of m >= 1 (1 for m = 0).
RECURSIVE NumDigits(_)
NumDigits(m) == IF m < 10 THEN 1 ELSE 1 + NumDigits(m \div 10)

\* The decimal s * m * 10^e in normal form.
RECURSIVE Dec(_, _, _)
Dec(s, m, e) ==
    IF m = 0 THEN [s |-> s, m |-> 0, e |-> 0]
    ELSE IF m % 10 = 0 THEN Dec(s, m \div 10, e + 1)
    ELSE [s |-> s, m |-> m, e |-> e]

\* 0.0, as numpy.zeros_like and numpy.pad fill.
Zero == Dec(1, 0, 0)

\* Floating point multiplication (exact on the model's decimals).
Mul(a, b) == Dec(a.s * b.s, a.m * b.m, a.e + b.e)

\* Floating point ==: the two zeros are equal.
NumEq(a, b) == (a.m = 0 /\ b.m = 0) \/ a = b

\* Numeric equality of two arrays.
ArrEq(a, b) ==
    Len(a) = Len(b) /\ \A i \in 1..Len(a) : NumEq(a[i], b[i])

\* numpy.zeros_like(a) and numpy.full_like(a, v).
ZerosLike(a) == [i \in 1..Len(a) |-> Zero]
FullLike(a, v) == [i \in 1..Len(a) |-> v]

\* (Mutant: the scale factor is forgotten.)
ScaledNot(a, scale) == a

\* array * scale, element by element.
Scaled(a, scale) == [i \in 1..Len(a) |-> Mul(a[i], scale)]

(***************************************************************************)
(* Number formatting: fmt.format(v) with the default fmt "{:.7g}".         *)
(***************************************************************************)
\* Significant digits of the default number format "{:.7g}".
FmtPrecision == 7

\* The decimal digits of the natural number m, most significant first.
RECURSIVE DigitsOf(_)
DigitsOf(m) ==
    IF m < 10 THEN << DigitChar(m) >>
    ELSE Append(DigitsOf(m \div 10), DigitChar(m % 10))

\* k times the character "0".
Zeros(k) == [i \in 1..k |-> "0"]

\* v rounded to FmtPrecision significant digits (ties to even).
RoundSig(v) ==
    LET d == NumDigits(v.m) IN
    IF d <= FmtPrecision THEN v
    ELSE LET k    == d - FmtPrecision
             q    == v.m \div Pow10(k)
             r    == v.m % Pow10(k)
             half == 5 * Pow10(k - 1)
             up   == r > half \/ (r = half /\ q % 2 = 1)
         IN Dec(v.s, IF up THEN q + 1 ELSE q, v.e + k)

\* "{:.7g}".format(v): fixed notation when the decimal exponent X of the
\* leading digit has -4 <= X < FmtPrecision, scientific notation otherwise;
\* trailing zeros are removed.
FmtDefault(v) ==
    LET r    == RoundSig(v)
        sign == IF r.s < 0 THEN << "-" >> ELSE << >>
        ds   == DigitsOf(r.m)
        d    == Len(ds)
        X    == d - 1 + r.e
        absX == IF X < 0 THEN 0 - X ELSE X
    IN  IF r.m = 0 THEN sign \o << "0" >>
        ELSE IF X >= -4 /\ X < FmtPrecision
        THEN IF r.e >= 0 THEN sign \o ds \o Zeros(r.e)
             ELSE IF X >= 0
                  THEN sign \o SubSeq(ds, 1, X + 1) \o << "." >>
                            \o SubSeq(ds, X + 2, d)
                  ELSE sign \o << "0", "." >> \o Zeros(absX - 1) \o ds
        ELSE sign \o << ds[1] >>
                  \o (IF d > 1 THEN << "." >> \o SubSeq(ds, 2, d) ELSE << >>)
                  \o << "e", IF X < 0 THEN "-" ELSE "+" >>
                  \o (IF absX < 10 THEN << "0" >> ELSE << >>)
                  \o DigitsOf(absX)

(***************************************************************************)
(* Numeric tokens: _NUM_RE and float().                                    *)
(***************************************************************************)
\* _NUM_RE.match at position i of t: the position after the match, or 0 when
\* there is none.  The pattern is
\*     [+-]?(?:\d*\.\d+|\d+)(?:[Ee][+-]?\d+)?
\* and every quantifier is greedy; the first alternative is tried first.
NumMatchEnd(t, i) ==
    LET j    == IF At(t, i) \in {"+", "-"} THEN i + 1 ELSE i
        d1   == RunLen(t, j, DigitChars)
        d2   == IF At(t, j + d1) = "." THEN RunLen(t, j + d1 + 1, DigitChars)
                ELSE 0
        k    == IF d2 >= 1 THEN j + d1 + 1 + d2
                ELSE IF d1 >= 1 THEN j + d1
                ELSE 0
        es   == IF At(t, k) \in {"e", "E"}
                THEN (IF At(t, k + 1) \in {"+", "-"} THEN k + 2 ELSE k + 1)
                ELSE 0
        ed   == IF es > 0 THEN RunLen(t, es, DigitChars) ELSE 0
    IN  IF k = 0 THEN 0
        ELSE IF ed >= 1 THEN es + ed
        ELSE k

\* _NUM_RE.findall(t), scanning from position i.
\* (A match can only start at a sign, a digit or a point.)
RECURSIVE NumFindFrom(_, _)
NumFindFrom(t, i) ==
    LET j == FirstIn(t, i, DigitChars \cup {"+", "-", "."})
        k == NumMatchEnd(t, j)
    IN  IF j > Len(t) THEN << >>
        ELSE IF k = 0 THEN NumFindFrom(t, j + 1)
        ELSE << SubSeq(t, j, k - 1) >> \o NumFindFrom(t, k)

NumFindAll(t) == NumFindFrom(t, 1)

\* The natural number written by the digit characters ds (0 for none).
RECURSIVE DigitsToNat(_)
DigitsToNat(ds) ==
    IF ds = << >> THEN 0
    ELSE 10 * DigitsToNat(SubSeq(ds, 1, Len(ds) - 1)) + DigitVal(ds[Len(ds)])

\* float(tok) for a token tok that _NUM_RE matched.
ParseFloat(tok) ==
    LET neg   == At(tok, 1) = "-"
        j     == IF At(tok, 1) \in {"+", "-"} THEN 2 ELSE 1
        d1    == RunLen(tok, j, DigitChars)
        dot   == At(tok, j + d1) = "."
        d2    == IF dot THEN RunLen(tok, j + d1 + 1, DigitChars) ELSE 0
        k     == IF dot THEN j + d1 + 1 + d2 ELSE j + d1
        ipart == SubSeq(tok, j, j + d1 - 1)
        fpart == IF dot THEN SubSeq(tok, j + d1 + 1, k - 1) ELSE << >>
        hasE  == At(tok, k) \in {"e", "E"}
        eneg  == hasE /\ At(tok, k + 1) = "-"
        es    == IF At(tok, k + 1) \in {"+", "-"} THEN k + 2 ELSE k + 1
        eabs  == IF hasE THEN DigitsToNat(SubSeq(tok, es, Len(tok))) ELSE 0
        ex    == IF eneg THEN 0 - eabs ELSE eabs
    IN  Dec(IF neg THEN -1 ELSE 1, DigitsToNat(ipart \o fpart), ex - d2)

\* [float(tok) for tok in _NUM_RE.findall(t)]
ParseNums(t) ==
    LET toks == NumFindAll(t) IN [i \in 1..Len(toks) |-> ParseFloat(toks[i])]


(***************************************************************************)
(* Datasets: a function from BPM names (texts) to component triples.       *)
(***************************************************************************)
\* The empty dict.
EmptyData == [n \in {} |-> 0]

\* a < b for Python strings: code point by code point, a proper prefix first.
RECURSIVE LessText(_, _)
LessText(a, b) ==
    IF b = << >> THEN FALSE
    ELSE IF a = << >> THEN TRUE
    ELSE IF Ord(a[1]) # Ord(b[1]) THEN Ord(a[1]) < Ord(b[1])
    ELSE LessText(Tail(a), Tail(b))

\* sorted(S) for a set S of texts.
RECURSIVE SortedTexts(_)
SortedTexts(S) ==
    IF S = {} THEN << >>
    ELSE LET m == CHOOSE x \in S : \A y \in S \ {x} : LessText(x, y)
         IN << m >> \o SortedTexts(S \ {m})

\* (Mutant: the names in descending order.)
ListBpmsDescending(data) ==
    LET asc == SortedTexts(DOMAIN data)
    IN  [i \in 1..Len(asc) |-> asc[Len(asc) + 1 - i]]

\* list_bpms of either class: sorted(self._data.keys()).
list_bpms(data) == SortedTexts(DOMAIN data)

(***************************************************************************)
(* RowFormatReader: BPMDataSDDS.from_file.                                 *)
(***************************************************************************)
\* str.splitlines on a text read in text mode (every line break is "\n").
RECURSIVE SplitLines(_)
SplitLines(t) ==
    IF t = << >> THEN << >>
    ELSE LET k == RunLenNot(t, 1, {"\n"})
         IN << SubSeq(t, 1, k) >> \o SplitLines(SubSeq(t, k + 2, Len(t)))

\* s.split(None, 2) for a stripped text s: at most three fields, the third
\* being the unsplit remainder of the line.
SplitFields(s) ==
    LET a  == RunLenNot(s, 1, Whitespace)
        i2 == a + 1 + RunLen(s, a + 1, Whitespace)
        b  == RunLenNot(s, i2, Whitespace)
        i3 == i2 + b + RunLen(s, i2 + b, Whitespace)
    IN  IF s = << >> THEN << >>
        ELSE IF i2 > Len(s) THEN << SubSeq(s, 1, a) >>
        ELSE IF i3 > Len(s)
        THEN << SubSeq(s, 1, a), SubSeq(s, i2, i2 + b - 1) >>
        ELSE << SubSeq(s, 1, a), SubSeq(s, i2, i2 + b - 1),
                SubSeq(s, i3, Len(s)) >>

\* (Mutant: the plane tag is not checked; every tag but "0" feeds y.)
AccLineAnyTag(acc, raw) ==
    LET s     == Strip(raw)
        parts == SplitFields(s)
    IN  IF s = << >> \/ s[1] = "#" THEN acc
        ELSE IF Len(parts) < 3 THEN acc
        ELSE LET name == parts[2]
                 comp == IF parts[1] = << "0" >> THEN "x" ELSE "y"
                 nums == ParseNums(parts[3])
                 old  == IF name \in DOMAIN acc THEN acc[name]
                         ELSE [x |-> << >>, y |-> << >>]
             IN  IF nums = << >> THEN acc
                 ELSE [n \in DOMAIN acc \cup {name} |->
                         IF n = name THEN [old EXCEPT ![comp] = @ \o nums]
                         ELSE acc[n]]

\* (Mutant: the entry is created before the payload is looked at.)
AccLineEmptyEntry(acc, raw) ==
    LET s     == Strip(raw)
        parts == SplitFields(s)
    IN  IF s = << >> \/ s[1] = "#" THEN acc
        ELSE IF Len(parts) < 3 THEN acc
        ELSE IF parts[1] \notin {<< "0" >>, << "1" >>} THEN acc
        ELSE LET name == parts[2]
                 comp == IF parts[1] = << "0" >> THEN "x" ELSE "y"
                 nums == ParseNums(parts[3])
                 old  == IF name \in DOMAIN acc THEN acc[name]
                         ELSE [x |-> << >>, y |-> << >>]
             IN  [n \in DOMAIN acc \cup {name} |->
                     IF n = name THEN [old EXCEPT ![comp] = @ \o nums]
                     ELSE acc[n]]

\* One iteration of the loop over the lines: the accumulator after the line.
AccLine(acc, raw) ==
    LET s     == Strip(raw)
        parts == SplitFields(s)
    IN  IF s = << >> \/ s[1] = "#" THEN acc
        ELSE IF Len(parts) < 3 THEN acc
        ELSE IF parts[1] \notin {<< "0" >>, << "1" >>} THEN acc
        ELSE LET name == parts[2]
                 comp == IF parts[1] = << "0" >> THEN "x" ELSE "y"
                 nums == ParseNums(parts[3])
                 old  == IF name \in DOMAIN acc THEN acc[name]
                         ELSE [x |-> << >>, y |-> << >>]
             IN  IF nums = << >> THEN acc
                 ELSE [n \in DOMAIN acc \cup {name} |->
                         IF n = name THEN [old EXCEPT ![comp] = @ \o nums]
                         ELSE acc[n]]

\* The loop over the lines.
RECURSIVE AccLines(_, _)
AccLines(lines, acc) ==
    IF lines = << >> THEN acc
    ELSE AccLines(Tail(lines), AccLine(acc, lines[1]))

\* (Mutant: z is zeros_like(y).)
BuildResultsZLikeY(acc) ==
    [n \in DOMAIN acc |->
        LET x0 == acc[n].x
            y0 == acc[n].y
            x  == IF x0 = << >> /\ y0 # << >> THEN ZerosLike(y0) ELSE x0
            y  == IF y0 = << >> /\ x # << >> THEN ZerosLike(x) ELSE y0
        IN  [x |-> x, y |-> y, z |-> ZerosLike(y)]]

\* The final dict: a missing component mirrors the other with zeros and z is
\* zeros_like(x).
BuildResults(acc) ==
    [n \in DOMAIN acc |->
        LET x0 == acc[n].x
            y0 == acc[n].y
            x  == IF x0 = << >> /\ y0 # << >> THEN ZerosLike(y0) ELSE x0
            y  == IF y0 = << >> /\ x # << >> THEN ZerosLike(x) ELSE y0
        IN  [x |-> x, y |-> y, z |-> ZerosLike(x)]]

\* BPMDataSDDS.from_file on a file holding the text t.
SDDSFromFile(t) == BuildResults(AccLines(SplitLines(t), EmptyData))


(***************************************************************************)
(* ParenFormatWriter: BPMDataSDDS.to_data.                                 *)
(*                                                                         *)
(* A call is a record [include_z, columns, z_fill, scale, header_lines];   *)
(* fmt and sep keep their defaults.  columns = 0 stands for 0 and None.    *)
(* header_lines is what iterating the argument yields: a sequence of       *)
(* texts (for a str argument, its characters one by one).                  *)
(***************************************************************************)
\* The default of z_fill, 0.0010580705711618066, cut to nine significant
\* digits (the number format keeps seven).
ZFillDefault == Dec(1, 105807057, -11)

\* The default separator sep.
SepDefault == << "," >>

\* vals[i:i + columns] for i in range(0, len(vals), columns), each joined.
RECURSIVE ColumnLines(_, _, _)
ColumnLines(vals, columns, sep) ==
    IF vals = << >> THEN << >>
    ELSE IF Len(vals) <= columns THEN << Join(sep, vals) >>
    ELSE << Join(sep, SubSeq(vals, 1, columns)) >>
         \o ColumnLines(SubSeq(vals, columns + 1, Len(vals)), columns, sep)

\* (Mutant: the column count is ignored.)
fmt_arrayOneLine(a, columns) ==
    Join(SepDefault, [i \in 1..Len(a) |-> FmtDefault(a[i])])

\* fmt_array(a).
fmt_array(a, columns) ==
    LET vals == [i \in 1..Len(a) |-> FmtDefault(a[i])]
    IN  IF columns > 0
        THEN Join(<< ",", "\n" >>, ColumnLines(vals, columns, SepDefault))
        ELSE Join(SepDefault, vals)

\* (Mutant: a instead of a[1:].)
DropNone(a) == a

\* a[1:].
DropFirst(a) == IF a = << >> THEN << >> ELSE Tail(a)

\* (Mutant: the fill is not scaled.)
ToDataZUnscaled(x, call) ==
    IF call.include_z THEN FullLike(x, call.z_fill) ELSE ZerosLike(x)

\* The z array of one BPM: a constant fill of x's shape, scaled, or zeros.
ToDataZ(x, call) ==
    IF call.include_z THEN Scaled(FullLike(x, call.z_fill), call.scale)
    ELSE ZerosLike(x)

\* (Mutant: with include_z, z is the Dataset's stored z, scaled.)
ToDataArraysStoredZ(data, name, call) ==
    LET x == Scaled(data[name].x, call.scale)
        y == Scaled(data[name].y, call.scale)
        z == IF call.include_z THEN Scaled(data[name].z, call.scale)
             ELSE ZerosLike(x)
    IN  [x |-> DropFirst(x), y |-> DropFirst(y), z |-> DropFirst(z)]

\* The three arrays handed to fmt_array for BPM name.
ToDataArrays(data, name, call) ==
    LET x == Scaled(data[name].x, call.scale)
        y == Scaled(data[name].y, call.scale)
        z == ToDataZ(x, call)
    IN  [x |-> DropFirst(x), y |-> DropFirst(y), z |-> DropFirst(z)]

\* The entry of one BPM: ("<name>"->\n{{<sx>},\n{<sy>},\n{<sz>}}).
EntryText(name, arrs, columns) ==
    << "(", "\"" >> \o name \o << "\"", "-", ">", "\n", "{", "{" >>
        \o fmt_array(arrs.x, columns) \o << "}", ",", "\n", "{" >>
        \o fmt_array(arrs.y, columns) \o << "}", ",", "\n", "{" >>
        \o fmt_array(arrs.z, columns) \o << "}", "}", ")" >>

\* What is written before the body when header_lines is given.
HeaderText(header_lines) ==
    IF header_lines = << >> THEN << >>
    ELSE << "{", "{" >>
         \o Concat([i \in 1..Len(header_lines) |-> RStrip(header_lines[i])])
         \o << "}", ",", "\n" >>

\* (Mutant: a comma follows the last entry too.)
ToDataTextTrailingComma(names, arrays, call) ==
    HeaderText(call.header_lines)
    \o << "{" >>
    \o Concat([i \in 1..Len(names) |->
                 EntryText(names[i], arrays[names[i]], call.columns)
                 \o << ",", "\n" >>])
    \o << "}" >>
    \o (IF call.header_lines # << >> THEN << "}" >> ELSE << >>)

\* The text to_data writes, given the arrays of every BPM.
ToDataText(names, arrays, call) ==
    HeaderText(call.header_lines)
    \o << "{" >>
    \o Concat([i \in 1..Len(names) |->
                 EntryText(names[i], arrays[names[i]], call.columns)
                 \o (IF i < Len(names) THEN << ",", "\n" >> ELSE << "\n" >>)])
    \o << "}" >>
    \o (IF call.header_lines # << >> THEN << "}" >> ELSE << >>)

(***************************************************************************)
(* ParenFormatReader: BPMDataParen.from_file.                              *)
(***************************************************************************)
\* _join_line_continuations: re.sub(r'\\\s*\n\s*', '', s).  A backslash whose
\* following run of whitespace holds a newline is removed with that run.
\* (The text up to the next backslash is kept as it is.)
RECURSIVE JoinFrom(_, _)
JoinFrom(t, i) ==
    LET b == FirstIn(t, i, {"\\"})
        w == RunLen(t, b + 1, Whitespace)
    IN  IF b > Len(t) THEN SubSeq(t, i, Len(t))
        ELSE IF \E j \in (b + 1)..(b + w) : t[j] = "\n"
        THEN SubSeq(t, i, b - 1) \o JoinFrom(t, b + 1 + w)
        ELSE SubSeq(t, i, b) \o JoinFrom(t, b + 1)

\* (Mutant: the continuations are not joined.)
NoJoin(t) == t

join_line_continuations(t) == JoinFrom(t, 1)

\* The position after the whitespace that starts at i (regex \s*).
SkipWs(t, i) == i + RunLen(t, i, Whitespace)

Braces == {"{", "}"}

\* \{\s*([^{}]*)\} with the opening brace at position i: the captured body
\* and the position after the closing brace (0 when there is no match).
ArrayBlock(t, i) ==
    LET r == RunLenNot(t, i + 1, Braces)
    IN  IF At(t, i) = "{" /\ At(t, i + 1 + r) = "}"
        THEN [next |-> i + r + 2,
              body |-> SubSeq(t, SkipWs(t, i + 1), i + r)]
        ELSE [next |-> 0, body |-> << >>]

\* _PATTERN.match at position i of t.  Every \s* is followed by a character
\* that is no whitespace and every class by a character outside it, so the
\* greedy match is the only one.
PatternMatch(t, i) ==
    LET fail == [end |-> 0]
        n0   == i + 2
        run  == RunLenNot(t, n0, {"\""})
        ws   == RunLen(t, n0, Whitespace)
        \* \s*([^"]+) : the class needs one character, given back by \s*
        n1   == IF ws < run THEN n0 + ws ELSE n0 + run - 1
        q    == n0 + run
        a    == SkipWs(t, q + 1)
        b    == SkipWs(t, a + 2)
        c    == SkipWs(t, b + 1)
        b1   == ArrayBlock(t, c)
        d    == SkipWs(t, b1.next)
        e    == SkipWs(t, d + 1)
        b2   == ArrayBlock(t, e)
        f    == SkipWs(t, b2.next)
        g    == SkipWs(t, f + 1)
        b3   == ArrayBlock(t, g)
        h    == SkipWs(t, b3.next)
        k    == SkipWs(t, h + 1)
    IN  IF At(t, i) # "(" \/ At(t, i + 1) # "\"" THEN fail
        ELSE IF run = 0 \/ At(t, q) # "\"" THEN fail
        ELSE IF At(t, a) # "-" \/ At(t, a + 1) # ">" THEN fail
        ELSE IF At(t, b) # "{" THEN fail
        ELSE IF b1.next = 0 \/ At(t, d) # "," THEN fail
        ELSE IF b2.next = 0 \/ At(t, f) # "," THEN fail
        ELSE IF b3.next = 0 \/ At(t, h) # "}" THEN fail
        ELSE IF At(t, k) # ")" THEN fail
        ELSE [end |-> k + 1, name |-> SubSeq(t, n1, q - 1),
              a1 |-> b1.body, a2 |-> b2.body, a3 |-> b3.body]

\* (Mutant: the first entry of a name is kept.)
RECURSIVE ParenScanFirstWins(_, _, _)
ParenScanFirstWins(t, i, results) ==
    LET j == FirstIn(t, i, {"("})
        m == PatternMatch(t, j)
    IN  IF j > Len(t) THEN results
        ELSE IF m.end = 0 THEN ParenScanFirstWins(t, j + 1, results)
        ELSE ParenScanFirstWins(t, m.end,
               [n \in DOMAIN results \cup {m.name} |->
                   IF n \in DOMAIN results THEN results[n]
                   ELSE [x |-> ParseNums(m.a1), y |-> ParseNums(m.a2),
                         z |-> ParseNums(m.a3)]])

\* The loop over _PATTERN.finditer(text) from position i: a later entry of a
\* name replaces an earlier one.
\* (A match can only start at an opening parenthesis.)
RECURSIVE ParenScan(_, _, _)
ParenScan(t, i, results) ==
    LET j == FirstIn(t, i, {"("})
        m == PatternMatch(t, j)
    IN  IF j > Len(t) THEN results
        ELSE IF m.end = 0 THEN ParenScan(t, j + 1, results)
        ELSE ParenScan(t, m.end,
               [n \in DOMAIN results \cup {m.name} |->
                   IF n = m.name
                   THEN [x |-> ParseNums(m.a1), y |-> ParseNums(m.a2),
                         z |-> ParseNums(m.a3)]
                   ELSE results[n]])

\* (Mutant: the names are keyed in lower case.)
ParenFromFileLower(t) ==
    [n \in { Lower(k) : k \in DOMAIN ParenScan(join_line_continuations(t), 1,
                                               EmptyData) } |->
        ParenScan(join_line_continuations(t), 1, EmptyData)[
            CHOOSE k \in DOMAIN ParenScan(join_line_continuations(t), 1,
                                          EmptyData) : Lower(k) = n]]

\* BPMDataParen.from_file on a file holding the text t.
ParenFromFile(t) == ParenScan(join_line_continuations(t), 1, EmptyData)


(***************************************************************************)
(* The Dataset query surface: get.                                         *)
(*                                                                         *)
(* A result is [kind |-> "ok", value |-> array] or an exception            *)
(* [kind |-> its class, msg |-> its message].  A message is the sequence   *)
(* of the pieces its f-string concatenates: [lit |-> literal text] and     *)
(* [text |-> an interpolated text].                                        *)
(***************************************************************************)
\* (Mutant: the selector is not lowered.)
NormComponentNoLower(component) == Strip(component)

\* comp = component.lower().strip()
NormComponent(component) == Strip(Lower(component))

ValidComponents == {<< "x" >>, << "y" >>, << "z" >>}

ComponentError ==
    [kind |-> "ValueError",
     msg  |-> << [lit |-> "component must be 'x', 'y', or 'z'"] >>]

\* ', '.join(names), piece by piece.
JoinNames(names) ==
    [i \in 1..(IF names = << >> THEN 0 ELSE 2 * Len(names) - 1) |->
        IF i % 2 = 1 THEN [text |-> names[(i + 1) \div 2]]
        ELSE [lit |-> ", "]]

\* BPMDataSDDS.get(bpm, component).
SDDSGet(data, bpm, component) ==
    LET comp == NormComponent(component) IN
    IF comp \notin ValidComponents THEN ComponentError
    ELSE IF bpm \notin DOMAIN data
    THEN [kind |-> "KeyError",
          msg  |-> << [lit |-> "BPM '"], [text |-> bpm],
                      [lit |-> "' not found. Available: "] >>
                   \o JoinNames(list_bpms(data))]
    ELSE [kind |-> "ok", value |-> data[bpm][comp[1]]]

\* BPMDataParen.get(bpm, component): a missing key is the dict's own
\* KeyError, whose only argument is the key.
ParenGet(data, bpm, component) ==
    LET comp == NormComponent(component) IN
    IF comp \notin ValidComponents THEN ComponentError
    ELSE IF bpm \notin DOMAIN data
    THEN [kind |-> "KeyError", msg |-> << [text |-> bpm] >>]
    ELSE [kind |-> "ok", value |-> data[bpm][comp[1]]]

(***************************************************************************)
(* RowFormatWriter: the turn normalization of BPMDataParen.to_sdds.        *)
(***************************************************************************)
\* (Mutant: the zeros are padded in front.)
NormalizePadFront(a, N) ==
    IF Len(a) > N THEN SubSeq(a, 1, N)
    ELSE IF Len(a) < N THEN [i \in 1..(N - Len(a)) |-> Zero] \o a
    ELSE a

\* normalize(a, N) for N >= 0: a[:N], or a padded with trailing zeros.
normalize(a, N) ==
    IF Len(a) > N THEN SubSeq(a, 1, N)
    ELSE IF Len(a) < N THEN a \o [i \in 1..(N - Len(a)) |-> Zero]
    ELSE a

(***************************************************************************)
(* RowFormatWriter: BPMDataParen.to_sdds.                                  *)
(*                                                                         *)
(* A call is a record [turns, ring_id, header_lines]; beam and fmt keep    *)
(* their defaults.  turns is << >> for None and << n >> for the int n;     *)
(* header_lines is << >> for None.                                         *)
(***************************************************************************)
\* The default of beam.
BeamDefault == << "U", "n", "k", "n", "o", "w", "n" >>

\* (Mutant: the largest length instead of the most frequent.)
MostCommonLargest(lens) ==
    IF lens = << >> THEN 0
    ELSE LET i == CHOOSE i \in 1..Len(lens) :
                     \A j \in 1..Len(lens) : lens[j] <= lens[i]
         IN  lens[i]

\* Counter(lens).most_common(1)[0][0] if lens else 0: the value with the
\* largest count, the first inserted among those.
MostCommon(lens) ==
    IF lens = << >> THEN 0
    ELSE LET count(v) == Cardinality({k \in 1..Len(lens) : lens[k] = v})
             i == CHOOSE i \in 1..Len(lens) :
                     /\ \A j \in 1..Len(lens) : count(lens[j]) <= count(lens[i])
                     /\ \A j \in 1..(i - 1) : count(lens[j]) < count(lens[i])
         IN  lens[i]

\* turns after l.149-151.
ToSddsTurns(data, call) ==
    LET names == list_bpms(data)
        lens  == [i \in 1..Len(names) |-> Len(data[names[i]].x)]
    IN  IF call.turns = << >> THEN MostCommon(lens) ELSE call.turns[1]

\* f"{float(n):16.7f}" for an int n >= 0.
FmtFixed(n) ==
    LET body == DigitsOf(n) \o << "." >> \o Zeros(7)
    IN  [i \in 1..(16 - Len(body)) |-> " "] \o body

\* (Mutant: the first sample is dropped, as to_data does.)
ToSddsArraysDropFirst(data, name, N) ==
    LET x == normalize(DropFirst(data[name].x), N)
        y == normalize(DropFirst(data[name].y), N)
    IN  [x |-> x,
         y |-> IF Len(y) = 0 /\ N > 0 THEN [i \in 1..N |-> Zero] ELSE y]

\* The two arrays formatted for BPM name (l.171-174).
ToSddsArrays(data, name, N) ==
    LET x == normalize(data[name].x, N)
        y == normalize(data[name].y, N)
    IN  [x |-> x,
         y |-> IF Len(y) = 0 /\ N > 0 THEN [i \in 1..N |-> Zero] ELSE y]

\* The header lines (l.160-168).
SddsHeader(call, N, count) ==
    << "#", " ", "S", "D", "D", "S", "A", "S", "C", "I", "I", "F", "O",
       "R", "M", "A", "T", " ", "v", "1", "\n" >>
    \o << "#", " ", "B", "e", "a", "m", ":", " " >>
       \o BeamDefault \o << "\n" >>
    \o (IF call.ring_id # << >>
        THEN << "#", " ", "R", "i", "n", "g", "I", "D", ":", " " >>
             \o call.ring_id \o << "\n" >>
        ELSE << >>)
    \o << "#", " ", "n", "u", "m", "b", "e", "r", " ", "o", "f", " ", "t",
          "u", "r", "n", "s", " ", ":", " " >>
       \o FmtFixed(N) \o << "\n" >>
    \o << "#", " ", "n", "u", "m", "b", "e", "r", " ", "o", "f", " ", "m",
          "o", "n", "i", "t", "o", "r", "s", " ", ":", " " >>
       \o FmtFixed(count) \o << "\n" >>
    \o Concat([i \in 1..Len(call.header_lines) |->
                 << "#", " " >> \o RStrip(call.header_lines[i]) \o << "\n" >>])

\* (Mutant: both lines of a BPM carry the tag 0.)
SddsLineTagZero(tag, name, a) ==
    << "0", " " >> \o name \o << " " >>
    \o Join(<< " " >>, [i \in 1..Len(a) |-> FmtDefault(a[i])]) \o << "\n" >>

\* One data line: f"{tag} {name} {' '.join(fmt.format(v) for v in a)}\n".
SddsLine(tag, name, a) ==
    << tag, " " >> \o name \o << " " >>
    \o Join(<< " " >>, [i \in 1..Len(a) |-> FmtDefault(a[i])]) \o << "\n" >>

\* The text to_sdds writes, given the arrays of every BPM.
ToSddsText(names, arrays, call, N) ==
    SddsHeader(call, N, Len(names))
    \o Concat([i \in 1..Len(names) |->
                 SddsLine("0", names[i], arrays[names[i]].x)
                 \o SddsLine("1", names[i], arrays[names[i]].y)])

(***************************************************************************)
(* SummaryReporter: summary_lengths and summary_stats of either class.     *)
(*                                                                         *)
(* A summary call returns [raised |-> FALSE, rows |-> the rows of the      *)
(* DataFrame] or [raised |-> TRUE, kind, msg].  A statistic is             *)
(* [nan |-> TRUE], or [nan |-> FALSE, val |-> << v >>] when the value is   *)
(* computed here, or [nan |-> FALSE, val |-> << >>] for a number numpy     *)
(* reduces from two or more samples.                                       *)
(***************************************************************************)
\* pd.DataFrame(rows).sort_values(by): the frame built from an empty list
\* has no columns, so the lookup of the first sort key raises KeyError.
NoColumn(by) == [raised |-> TRUE, kind |-> "KeyError",
                 msg |-> << [lit |-> by[1]] >>]

\* sort_values(by), by the columns "BPM" or "BPM", "component": the rows in
\* ascending order of their (distinct) keys.
SortValues(rows, by) ==
    [k \in 1..Len(rows) |->
        rows[CHOOSE i \in 1..Len(rows) :
               Cardinality({ j \in 1..Len(rows) :
                   \/ LessText(rows[j].BPM, rows[i].BPM)
                   \/ /\ Len(by) > 1
                      /\ rows[j].BPM = rows[i].BPM
                      /\ Ord(rows[j].component) < Ord(rows[i].component) })
                 = k - 1]]

\* summary_lengths of either class.
summary_lengths(data) ==
    LET names == list_bpms(data)
        rows  == [i \in 1..Len(names) |->
                    [BPM   |-> names[i],
                     len_x |-> Len(data[names[i]].x),
                     len_y |-> Len(data[names[i]].y),
                     len_z |-> Len(data[names[i]].z)]]
    IN  IF rows = << >> THEN NoColumn(<< "BPM" >>)
        ELSE [raised |-> FALSE, rows |-> SortValues(rows, << "BPM" >>)]

NaN == [nan |-> TRUE]
Float(val) == [nan |-> FALSE, val |-> val]

\* The percentiles a summary_stats call asks for; (5, 50, 95) by default.
PercentileArgs == { << 5, 50, 95 >>, << 25 >>, << >> }

\* stats_for(arr) inside summary_stats.
stats_for(arr, percentiles) ==
    LET asked == { percentiles[i] : i \in 1..Len(percentiles) }
        one   == IF Len(arr) = 1 THEN Float(<< arr[1] >>)
                 ELSE Float(<< >>)
    IN  IF Len(arr) = 0
        THEN [n |-> 0, mean |-> NaN, std |-> NaN, min |-> NaN, max |-> NaN,
              median |-> NaN, p |-> [q \in asked |-> NaN]]
        ELSE [n |-> Len(arr), mean |-> one,
              std |-> IF Len(arr) > 1 THEN Float(<< >>)
                      ELSE Float(<< Zero >>),
              min |-> one, max |-> one, median |-> one,
              p |-> [q \in asked |-> one]]

\* summary_stats of either class.
summary_stats(data, percentiles) ==
    LET names == list_bpms(data)
        rows  == [i \in 1..(3 * Len(names)) |->
                    LET name == names[(i + 2) \div 3]
                        comp == << "x", "y", "z" >>[((i - 1) % 3) + 1]
                    IN  stats_for(data[name][comp], percentiles)
                        @@ [BPM |-> name, component |-> comp]]
    IN  IF rows = << >> THEN NoColumn(<< "BPM", "component" >>)
        ELSE [raised |-> FALSE,
              rows |-> SortValues(rows, << "BPM", "component" >>)]

(***************************************************************************)
(* What a method leaves in self._data: no method assigns to it, and the    *)
(* writers scale, slice and pad into new arrays.                           *)
(***************************************************************************)
StoredAfterQuery(data) == data

\* (Mutant: to_data scales the stored arrays in place.)
StoredAfterToDataInPlace(data, call) ==
    [n \in DOMAIN data |->
        [x |-> Scaled(data[n].x, call.scale),
         y |-> Scaled(data[n].y, call.scale),
         z |-> data[n].z]]

\* to_data: x = self.get(name, "x")*scale is a new array.
StoredAfterToData(data, call) == data

\* to_sdds: normalize returns a slice or a padded copy.
StoredAfterToSdds(data, call) == data

(***************************************************************************)
(* The batch driver: convert_sdds_to_data.py.                              *)
(*                                                                         *)
(* The scanned folder is a function from file names (texts) to files       *)
(* [kind, text, readable]: kind is "file" or "dir", text the content,      *)
(* readable whether opening the file for reading succeeds.  A status is    *)
(* the sequence of pieces of the status string, as for messages.           *)
(***************************************************************************)
\* fnmatch of a name against a pattern of literal characters and "*".
RECURSIVE GlobMatch(_, _)
GlobMatch(pat, name) ==
    IF pat = << >> THEN name = << >>
    ELSE IF pat[1] = "*"
    THEN \E k \in 0..Len(name) :
            GlobMatch(Tail(pat), SubSeq(name, k + 1, Len(name)))
    ELSE /\ name # << >>
         /\ name[1] = pat[1]
         /\ GlobMatch(Tail(pat), Tail(name))

\* find_files: sorted(root.glob(pattern)).
find_files(folder, pattern) ==
    SortedTexts({ n \in DOMAIN folder : GlobMatch(pattern, n) })

\* Path.suffix and Path.stem of a file name: the suffix starts at the last
\* dot, unless that dot is the first or the last character.
PathSuffix(name) ==
    LET dots == { i \in 1..Len(name) : name[i] = "." }
        i    == IF dots = {} THEN 0
                ELSE CHOOSE d \in dots : \A e \in dots : e <= d
    IN  IF i > 1 /\ i < Len(name) THEN SubSeq(name, i, Len(name)) ELSE << >>

PathStem(name) == SubSeq(name, 1, Len(name) - Len(PathSuffix(name)))

DataSuffix == << ".", "d", "a", "t", "a" >>

\* The output path of convert_one (l.63-66): same folder, name
\* <stem><suffix>.data, or the source name with its suffix replaced.
DstPath(name, suffix) ==
    IF suffix # << >> THEN PathStem(name) \o suffix \o DataSuffix
    ELSE PathStem(name) \o DataSuffix

IsFile(folder, name) == name \in DOMAIN folder /\ folder[name].kind = "file"
Exists(folder, name) == name \in DOMAIN folder

\* The status strings.
StatusOk == << [lit |-> "ok"] >>
StatusSkipped == << [lit |-> "skipped_exists"] >>
StatusDryRun == << [lit |-> "dry_run"] >>
StatusError == << [lit |-> "error"] >>
StatusErrorEx(ex) == << [lit |-> "error: "] >> \o ex

\* str(ex) of the exceptions the conversion raises.
PermissionDenied(name) ==
    << [lit |-> "[Errno 13] Permission denied: "], [text |-> name] >>
IsADirectory(name) ==
    << [lit |-> "[Errno 21] Is a directory: "], [text |-> name] >>
BadFormat ==
    << [lit |-> "Unknown format code 'd' for object of type 'float'"] >>

\* to_data with the number format fmt: "default" is "{:.7g}", "bad" one that
\* float rejects ("{:d}"), so that formatting the first value raises.  The
\* result is the text the file holds when to_data returns or raises: an
\* entry is written only once its three arrays are formatted.
\* The BPMs, by position, that hand a value to the number format.
Formatting(names, arrays) ==
    { i \in 1..Len(names) : \/ arrays[names[i]].x # << >>
                            \/ arrays[names[i]].y # << >>
                            \/ arrays[names[i]].z # << >> }

\* The call returns, or raises at the first position of fails after
\* writing the header, the opening brace and the entries before it.
ToDataWritten(names, arrays, call, fmt, fails) ==
    IF fmt = "default" \/ fails = {}
    THEN [raised |-> FALSE, text |-> ToDataText(names, arrays, call)]
    ELSE [raised |-> TRUE,
          text |-> HeaderText(call.header_lines) \o << "{" >>
                   \o Concat([i \in 1..((CHOOSE i \in fails :
                                           \A j \in fails : i <= j) - 1) |->
                                EntryText(names[i], arrays[names[i]],
                                          call.columns)
                                \o << ",", "\n" >>])]

ToDataWrite(data, call, fmt) ==
    ToDataWritten(list_bpms(data),
                  [n \in DOMAIN data |-> ToDataArrays(data, n, call)],
                  call, fmt,
                  Formatting(list_bpms(data),
                             [n \in DOMAIN data |->
                                 ToDataArrays(data, n, call)]))

\* The name of the folder that exists.
FolderName == "data"

(***************************************************************************)
(* Inputs of the model.                                                    *)
(***************************************************************************)
\* The lines a row-format input file is made of.  Each line comes with what
\* the format says it carries: its plane (0 or 1, -1 for a line the reader
\* ignores), its BPM name and its samples.
Ignored(text) ==
    [text |-> text, plane |-> -1, name |-> << >>, nums |-> << >>]

RowLines ==
    { [text  |-> << "0", " ", "A", " ", "1", " ", "2", ".", "5" >>,
       plane |-> 0, name |-> << "A" >>,
       nums  |-> << Dec(1, 1, 0), Dec(1, 25, -1) >>],
      [text  |-> << "1", " ", "A", " ", "-", "3", ",", "4", "e", "1" >>,
       plane |-> 1, name |-> << "A" >>,
       nums  |-> << Dec(-1, 3, 0), Dec(1, 4, 1) >>],
      [text  |-> << " ", "0", "\t", "A", " ", " ", "9", " " >>,
       plane |-> 0, name |-> << "A" >>,
       nums  |-> << Dec(1, 9, 0) >>],
      [text  |-> << "0", " ", "B", " ", "7" >>,
       plane |-> 0, name |-> << "B" >>,
       nums  |-> << Dec(1, 7, 0) >>],
      [text  |-> << "1", " ", "B", " ", ".", "5", " ", "0", " ", "2" >>,
       plane |-> 1, name |-> << "B" >>,
       nums  |-> << Dec(1, 5, -1), Zero, Dec(1, 2, 0) >>],
      [text  |-> << "0", " ", "\"", "Q", " ", "6", " ", "8" >>,
       plane |-> 0, name |-> << "\"", "Q" >>,
       nums  |-> << Dec(1, 6, 0), Dec(1, 8, 0) >>],
      \* a comment, an empty line, two fields only, a plane tag that is
      \* not exactly 0 or 1, a payload without a number
      Ignored(<< "#", " ", "0", " ", "A", " ", "9" >>),
      Ignored(<< >>),
      Ignored(<< "0", " ", "A" >>),
      Ignored(<< "0", "1", " ", "A", " ", "5" >>),
      Ignored(<< "1", " ", "A", " ", "x" >>) }

\* The input files: up to MaxLines lines, each ended by a line break.
InputFiles == UNION { [1..k -> RowLines] : k \in 0..MaxLines }

InputText(lines) ==
    Concat([i \in 1..Len(lines) |-> lines[i].text \o << "\n" >>])

\* The default of columns.
ColumnsDefault == 6

\* The header convert_one passes: one str, iterated character by character.
ConvertOneHeader ==
    << "\"", "0", "6", "/", "1", "7", "/", "2", "0", "2", "4", " ", "1",
       "7", ":", "5", "0", ":", "1", "7", "\"", ",", "3", "9", "2", "7",
       "6", "3", "5", "4", "1", "7", ",", "\"", "2", "0", "2", "4", "-",
       "0", "6", "-", "1", "7", "_", "1", "7", ":", "3", "2", ":", "3",
       "2", ".", "9", "1", "9", "_", "T", "u", "n", "e", "\"", ",", "3",
       "9", "2", "7", "6", "3", "5", "4", "1", "2" >>

IterStr(str) == [i \in 1..Len(str) |-> << str[i] >>]

\* to_data as convert_one calls it: --include-z / --no-include-z, --scale.
ConvertOneCalls ==
    { [include_z |-> iz, columns |-> ColumnsDefault, z_fill |-> ZFillDefault,
       scale |-> sc, header_lines |-> IterStr(ConvertOneHeader)] :
      iz \in BOOLEAN, sc \in {Dec(1, 1, 0), Dec(-1, 2, 0), Dec(1, 5, -1)} }

\* to_data called directly: no header, a list of header lines or one header
\* line that holds a brace, another column count or none, a z_fill of 0.25.
LibraryCalls ==
    { [include_z |-> iz, columns |-> c, z_fill |-> Dec(1, 25, -2),
       scale |-> sh[1], header_lines |-> sh[2]] :
      iz \in BOOLEAN, c \in {0, 2},
      sh \in { << Dec(1, 1, 0), << >> >>,
               << Dec(-1, 2, 0),
                  << << "r", "u", "n", " ", "7", " " >>,
                     << "t", "u", "n", "e" >> >> >>,
               << Dec(1, 1, 0), << << "{", "x" >> >> >> } }

ToDataCalls == ConvertOneCalls \cup LibraryCalls

\* to_data with every default.
DefaultCall ==
    [include_z |-> TRUE, columns |-> ColumnsDefault, z_fill |-> ZFillDefault,
     scale |-> Dec(1, 1, 0), header_lines |-> << >>]

\* The entries a paren-format input file is made of.  Each entry comes with
\* what the format says it carries: its BPM name (<< >> for a text that is
\* no entry) and its three arrays.
ParenEntries ==
    {
      [text |-> << "(", "\"", "A", "\"", "-", ">", "{", "{", "1", ",", "2",
                   "}", ",", "{", "3", "}", ",", "{", "}", "}", ")" >>,
       name |-> << "A" >>,
       x |-> << Dec(1, 1, 0), Dec(1, 2, 0) >>, y |-> << Dec(1, 3, 0) >>, z |-> << >>],
      [text |-> << "(", "\"", "B", "\"", "-", ">", "\n", "{", "{", "4",
                   ",", "5", ",", "6", "}", ",", "\n", "{", "7", ",", "8",
                   "}", ",", "\n", "{", "9", "}", "}", ")" >>,
       name |-> << "B" >>,
       x |-> << Dec(1, 4, 0), Dec(1, 5, 0), Dec(1, 6, 0) >>, y |-> << Dec(1, 7, 0), Dec(1, 8, 0) >>, z |-> << Dec(1, 9, 0) >>],
      \* the name A again, with an empty y
      [text |-> << "(", "\"", "A", "\"", "-", ">", "{", "{", ".", "5", "}",
                   ",", "{", "}", ",", "{", "1", "}", "}", ")" >>,
       name |-> << "A" >>,
       x |-> << Dec(1, 5, -1) >>, y |-> << >>, z |-> << Dec(1, 1, 0) >>],
      \* a line break inside the name
      [text |-> << "(", "\"", "C", "\n", "D", "\"", "-", ">", "{", "{",
                   "1", "}", ",", "{", "2", "}", ",", "{", "3", "}", "}",
                   ")" >>,
       name |-> << "C", "\n", "D" >>,
       x |-> << Dec(1, 1, 0) >>, y |-> << Dec(1, 2, 0) >>, z |-> << Dec(1, 3, 0) >>],
      \* the literals 12 and 4e1, each split by a line continuation
      [text |-> << "(", "\"", "E", "\"", "-", ">", "{", "{", "1", "\\",
                   " ", "\n", " ", " ", "2", ",", " ", "-", "3", "}", ",",
                   "{", "4", "e", "\\", "\n", "1", "}", ",", "{", "5", "}",
                   "}", ")" >>,
       name |-> << "E" >>,
       x |-> << Dec(1, 12, 0), Dec(-1, 3, 0) >>, y |-> << Dec(1, 4, 1) >>, z |-> << Dec(1, 5, 0) >>],
      \* whitespace wherever the pattern takes it
      [text |-> << "(", "\"", " ", "a", " ", "\"", " ", " ", "-", ">", " ",
                   "{", " ", "{", " ", "7", " ", "}", " ", ",", " ", "{",
                   " ", "7", " ", "7", " ", "}", " ", ",", " ", "{", " ",
                   "}", " ", "}", " ", ")" >>,
       name |-> << "a", " " >>,
       x |-> << Dec(1, 7, 0) >>, y |-> << Dec(1, 7, 0), Dec(1, 7, 0) >>, z |-> << >>],
      \* the name a: A in lower case, and the name above without its spaces
      [text |-> << "(", "\"", "a", "\"", "-", ">", "{", "{", "8", "}", ",",
                   "{", "}", ",", "{", "}", "}", ")" >>,
       name |-> << "a" >>,
       x |-> << Dec(1, 8, 0) >>, y |-> << >>, z |-> << >>],
      \* two arrays only: no entry
      [text |-> << "(", "\"", "F", "\"", "-", ">", "{", "{", "1", "}", ",",
                   "{", "2", "}", "}", ")" >>,
       name |-> << >>, x |-> << >>, y |-> << >>, z |-> << >>] }

\* The paren-format input files: up to MaxEntries entries between braces,
\* separated by a comma and a line break.
ParenFiles == UNION { [1..k -> ParenEntries] : k \in 0..MaxEntries }

ParenText(entries) ==
    << "{" >>
    \o Join(<< ",", "\n" >>, [i \in 1..Len(entries) |-> entries[i].text])
    \o << "}" >>

\* to_sdds as it is called: turns None or given, with the defaults or with a
\* ring name and one extra header line.
ToSddsCalls ==
    { [turns |-> t, ring_id |-> rh[1], header_lines |-> rh[2]] :
      t \in {<< >>} \cup { << n >> : n \in 0..MaxTurns },
      rh \in { << << >>, << >> >>,
               << << "H", "E", "R" >>, << << "r", "u", "n", " ", "7", " " >> >> >> } }

\* The entries the scanned folder may hold.
FolderEntries ==
    {
      \* a row file of one BPM with three samples of x and two of y
      [name |-> << "a", ".", "s", "d", "d", "s" >>,
       file |-> [kind |-> "file", text |-> << "0", " ", "A", " ", "1", " ", "2", ".", "5",
                             " ", "3",
                             "\n", "1", " ", "A", " ", "-", "3", ",", "4",
                             "e", "1", "\n" >>,
                 readable |-> TRUE]],
      \* a row file of one BPM with one turn, under another suffix
      [name |-> << "a", ".", "t", "x", "t" >>,
       file |-> [kind |-> "file", text |-> << "0", " ", "B", " ", "7", "\n" >>,
                 readable |-> TRUE]],
      \* a directory whose name matches the default pattern
      [name |-> << "b", ".", "s", "d", "d", "s" >>,
       file |-> [kind |-> "dir", text |-> << >>,
                 readable |-> TRUE]],
      \* an output file that exists before the run
      [name |-> << "a", ".", "d", "a", "t", "a" >>,
       file |-> [kind |-> "file", text |-> << "o", "l", "d" >>,
                 readable |-> TRUE]],
      \* a row file that cannot be opened for reading
      [name |-> << "c", ".", "s", "d", "d", "s" >>,
       file |-> [kind |-> "file", text |-> << "0", " ", "A", " ", "1", " ", "2", ".", "5",
                             "\n", "1", " ", "A", " ", "-", "3", ",", "4",
                             "e", "1", "\n" >>,
                 readable |-> FALSE]],
      \* a row file whose output path is a directory
      [name |-> << "d", ".", "s", "d", "d", "s" >>,
       file |-> [kind |-> "file", text |-> << "0", " ", "B", " ", "7", "\n" >>,
                 readable |-> TRUE]],
      \* that directory
      [name |-> << "d", ".", "d", "a", "t", "a" >>,
       file |-> [kind |-> "dir", text |-> << >>,
                 readable |-> TRUE]] }

\* The folders: up to MaxFiles of these entries.
Folders ==
    { [n \in { e.name : e \in S } |->
          (CHOOSE e \in S : e.name = n).file] :
      S \in { S \in SUBSET FolderEntries : Cardinality(S) <= MaxFiles } }

\* The command lines of main: folder, --pattern, --suffix, --overwrite,
\* --dry-run, --fmt, --wrap (<< >> for None); --include-z and --scale keep
\* their defaults.
MainArgs ==
    [folder    : {FolderName, "missing"},
     pattern   : { << "*", ".", "s", "d", "d", "s" >>,
                   << "*", ".", "*" >> },
     suffix    : { << >>, << "_", "c", "o", "n", "v" >> },
     overwrite : BOOLEAN,
     dry_run   : BOOLEAN,
     fmt       : {"default", "bad"},
     wrap      : { << >>, << 1 >> },
     include_z : {TRUE},
     scale     : {Dec(1, 1, 0)}]

\* BPM names and component selectors handed to get.
GetNames == { << "A" >>, << "B" >>, << "\"", "Q" >>, << "a" >> }
GetComponents ==
    { << "x" >>, << " ", "Y", "\t" >>, << "Z" >>, << "w" >>, << >>,
      << "x", "y" >> }

\* Samples of the arrays handed to normalize.
NormSamples == { Dec(1, 1, 0), Dec(-1, 25, -1), Dec(1, 4, 1) }
NormArrays == UNION { [1..k -> NormSamples] : k \in 0..MaxTurns }


(***************************************************************************)
(* The batch driver: convert_one and the exit status of main.              *)
(***************************************************************************)
\* (Mutant: an existing destination is never skipped.)
MustSkipNever(folder, dst, args) == FALSE

\* l.68: dst.exists() and not overwrite and not dry_run.
MustSkip(folder, dst, args) ==
    Exists(folder, dst) /\ ~args.overwrite /\ ~args.dry_run

\* The to_data call of convert_one (l.76-77).
ConvertOneCall(args) ==
    [include_z |-> args.include_z, columns |-> ColumnsDefault,
     z_fill |-> ZFillDefault, scale |-> args.scale,
     header_lines |-> IterStr(ConvertOneHeader)]

\* convert_one(sdds_path, ...) on the folder: the destination (<< >> for
\* None), the status, the folder afterwards and whether the destination was
\* opened for writing.
Outcome(dst, status, folder, wrote) ==
    [dst |-> dst, status |-> status, folder |-> folder, wrote |-> wrote]

\* l.75-80: to_data has opened dst and written w.text, then returned or
\* raised.
Converted(folder, dst, w) ==
    Outcome(dst,
            IF w.raised THEN StatusErrorEx(BadFormat) ELSE StatusOk,
            [n \in DOMAIN folder \cup {dst} |->
                IF n = dst
                THEN [kind |-> "file", text |-> w.text, readable |-> TRUE]
                ELSE folder[n]],
            TRUE)

ConvertTo(folder, name, dst, args) ==
    IF ~IsFile(folder, name)
    THEN Outcome(<< >>, StatusError, folder, FALSE)
    ELSE IF MustSkip(folder, dst, args)
    THEN Outcome(dst, StatusSkipped, folder, FALSE)
    ELSE IF args.dry_run
    THEN Outcome(dst, StatusDryRun, folder, FALSE)
    ELSE IF ~folder[name].readable
    THEN Outcome(dst, StatusErrorEx(PermissionDenied(name)), folder, FALSE)
    ELSE IF Exists(folder, dst) /\ folder[dst].kind = "dir"
    THEN Outcome(dst, StatusErrorEx(IsADirectory(dst)), folder, FALSE)
    ELSE Converted(folder, dst,
                   ToDataWrite(SDDSFromFile(folder[name].text),
                               ConvertOneCall(args), args.fmt))

convert_one(folder, name, args) ==
    ConvertTo(folder, name, DstPath(name, args.suffix), args)

\* (Mutant: main always returns 0 after the loop.)
ExitCodeZero(errors) == 0

\* l.150: return 0 if errors == 0 else 1.
ExitCode(errors) == IF errors = 0 THEN 0 ELSE 1


(***************************************************************************)
(* The state.                                                              *)
(***************************************************************************)
VARIABLES
    input,      \* the lines the .sdds input file was made of (see RowLines)
    sddsText,   \* the text of the .sdds input file
    pc,         \* "start", "loaded" (BPMDataSDDS.from_file has returned),
                \* "written" (to_data has), "reread" (BPMDataParen.from_file)
    sdds,       \* _data of the BPMDataSDDS instance
    tdCall,     \* the arguments of the to_data call
    tdArrays,   \* per BPM, the arrays to_data handed to fmt_array
    dataText,   \* the text of the .data file to_data wrote
    paren,      \* _data of the BPMDataParen instance
    getRes,     \* the last get call and its result (NoGet when none)
    norm,       \* the last normalize call and its result (NoNorm when none)
    summ,       \* the last summary call and its result (NoSumm when none)
    fs,         \* the folder the driver scans: file name -> file
    drv         \* the run of main: arguments, position, counters, outcomes

vars == << input, sddsText, pc, sdds, tdCall, tdArrays, dataText, paren,
           getRes, norm, summ, fs, drv >>

fileVars == << input, sddsText >>
convVars == << pc, sdds, tdCall, tdArrays, dataText, paren >>
driverVars == << fs, drv >>

NoGet == [cls |-> "none"]
NoNorm == [a |-> << >>, N |-> -1, r |-> << >>, again |-> FALSE]
NoSumm == [cls |-> "none"]
NoDrv == [phase |-> "off"]

InitWith(lines) ==
    /\ input = lines
    /\ sddsText = InputText(lines)
    /\ pc = "start"
    /\ sdds = EmptyData
    /\ tdCall = << >>
    /\ tdArrays = EmptyData
    /\ dataText = << >>
    /\ paren = EmptyData
    /\ getRes = NoGet
    /\ norm = NoNorm
    /\ summ = NoSumm
    /\ fs = EmptyData
    /\ drv = NoDrv

Init == \E lines \in InputFiles : InitWith(lines)

(***************************************************************************)
(* The operations.                                                         *)
(***************************************************************************)
\* bpm = BPMDataSDDS.from_file(path)
FromFileSDDS ==
    /\ pc = "start"
    /\ sdds' = SDDSFromFile(sddsText)
    /\ pc' = "loaded"
    /\ getRes' = NoGet
    /\ UNCHANGED << fileVars, tdCall, tdArrays, dataText, paren, norm, summ,
                    driverVars >>

\* bpm.to_data(dst, ...)
ToData(call) ==
    /\ pc = "loaded"
    /\ LET names  == list_bpms(sdds)
           arrays == [n \in DOMAIN sdds |-> ToDataArrays(sdds, n, call)]
       IN  /\ tdArrays' = arrays
           /\ dataText' = ToDataText(names, arrays, call)
    /\ tdCall' = call
    /\ pc' = "written"
    /\ getRes' = NoGet
    /\ UNCHANGED << fileVars, sdds, paren, norm, summ, driverVars >>

\* BPMDataParen.from_file(dst)
FromFileParen ==
    /\ pc = "written"
    /\ paren' = ParenFromFile(dataText)
    /\ pc' = "reread"
    /\ getRes' = NoGet
    /\ UNCHANGED << fileVars, sdds, tdCall, tdArrays, dataText, norm, summ,
                    driverVars >>

\* bpm.get(name, component) on the BPMDataSDDS instance, between from_file
\* and to_data
GetSDDS(bpm, component) ==
    /\ pc = "loaded"
    /\ getRes' = [cls |-> "BPMDataSDDS", bpm |-> bpm, component |-> component,
                  ret |-> SDDSGet(sdds, bpm, component)]
    /\ UNCHANGED << fileVars, convVars, norm, summ, driverVars >>

\* get(name, component) on the BPMDataParen instance
GetParen(bpm, component) ==
    /\ pc = "reread"
    /\ getRes' = [cls |-> "BPMDataParen", bpm |-> bpm, component |-> component,
                  ret |-> ParenGet(paren, bpm, component)]
    /\ UNCHANGED << fileVars, convVars, norm, summ, driverVars >>

\* normalize(a, N) inside to_sdds, on an array of the Dataset
Normalize(a, N) ==
    /\ norm' = [a |-> a, N |-> N, r |-> normalize(a, N), again |-> FALSE]
    /\ UNCHANGED << fileVars, convVars, getRes, summ, driverVars >>

\* normalize(r, N) on the result r of the previous normalization to N
NormalizeAgain ==
    /\ norm.N >= 0
    /\ norm' = [a |-> norm.r, N |-> norm.N, r |-> normalize(norm.r, norm.N),
                again |-> TRUE]
    /\ UNCHANGED << fileVars, convVars, getRes, summ, driverVars >>

\* BPMDataParen.from_file(path) on the paren-format input file
ReadParen ==
    /\ pc = "pstart"
    /\ paren' = ParenFromFile(dataText)
    /\ pc' = "ploaded"
    /\ UNCHANGED << fileVars, sdds, tdCall, tdArrays, dataText, getRes, norm,
                    summ, driverVars >>

\* data.to_sdds(path, ...)
ToSdds(call) ==
    /\ pc = "ploaded"
    /\ LET names  == list_bpms(paren)
           N      == ToSddsTurns(paren, call)
           arrays == [n \in DOMAIN paren |-> ToSddsArrays(paren, n, N)]
       IN  /\ tdArrays' = arrays
           /\ sddsText' = ToSddsText(names, arrays, call, N)
    /\ tdCall' = call
    /\ pc' = "pwritten"
    /\ UNCHANGED << input, dataText, sdds, paren, getRes, norm, summ,
                    driverVars >>

\* BPMDataSDDS.from_file on the file to_sdds wrote
RereadSDDS ==
    /\ pc = "pwritten"
    /\ sdds' = SDDSFromFile(sddsText)
    /\ pc' = "pread"
    /\ UNCHANGED << fileVars, tdCall, tdArrays, dataText, paren, getRes, norm,
                    summ, driverVars >>

\* main(argv) up to the loop (l.85-118)
MainStart(args) ==
    /\ drv.phase = "off"
    /\ LET files == IF args.folder = FolderName
                    THEN find_files(fs, args.pattern) ELSE << >>
           run   == [args |-> args, files |-> files, idx |-> 1,
                     ok |-> 0, skipped |-> 0, dry |-> 0, errors |-> 0,
                     log |-> << >>]
       IN  drv' = IF args.folder # FolderName
                  THEN [phase |-> "done", exit |-> 2] @@ run
                  ELSE IF files = << >>
                  THEN [phase |-> "done", exit |-> 0] @@ run
                  ELSE [phase |-> "loop", exit |-> -1] @@ run
    /\ UNCHANGED << fileVars, convVars, getRes, norm, summ, fs >>

\* The counters and the log of the run after the outcome r of the file src
\* (l.131-142).
Counted(run, src, r) ==
    [run EXCEPT
        !.idx = @ + 1,
        !.ok = IF r.status = StatusOk THEN @ + 1 ELSE @,
        !.skipped = IF r.status = StatusSkipped THEN @ + 1 ELSE @,
        !.dry = IF r.status = StatusDryRun THEN @ + 1 ELSE @,
        !.errors = IF r.status \notin {StatusOk, StatusSkipped, StatusDryRun}
                   THEN @ + 1 ELSE @,
        !.log = Append(@, [src |-> src, dst |-> r.dst,
                           status |-> r.status, wrote |-> r.wrote])]

\* One iteration of the loop over the files (l.120-142)
MainConvert ==
    /\ drv.phase = "loop"
    /\ drv.idx <= Len(drv.files)
    /\ fs' = convert_one(fs, drv.files[drv.idx], drv.args).folder
    /\ drv' = Counted(drv, drv.files[drv.idx],
                      convert_one(fs, drv.files[drv.idx], drv.args))
    /\ UNCHANGED << fileVars, convVars, getRes, norm, summ >>

\* The end of main (l.144-150)
MainReturn ==
    /\ drv.phase = "loop"
    /\ drv.idx > Len(drv.files)
    /\ drv' = [drv EXCEPT !.phase = "done", !.exit = ExitCode(drv.errors)]
    /\ UNCHANGED << fileVars, convVars, getRes, norm, summ, fs >>

(***************************************************************************)
(* A session of method calls on the Dataset a reader has constructed.      *)
(***************************************************************************)
Constructed == pc \in {"loaded", "ploaded"}
SelfClass == IF pc = "loaded" THEN "BPMDataSDDS" ELSE "BPMDataParen"
Self == IF pc = "loaded" THEN sdds ELSE paren

\* A call of the method op: its result is kept in summ, and self._data
\* becomes what the method leaves in it.
MethodCall(op, args, ret, after) ==
    /\ Constructed
    /\ summ' = [cls |-> SelfClass, op |-> op, args |-> args, ret |-> ret]
    /\ IF pc = "loaded"
       THEN sdds' = after /\ paren' = paren
       ELSE paren' = after /\ sdds' = sdds
    /\ UNCHANGED << fileVars, pc, tdCall, tdArrays, dataText, getRes, norm,
                    driverVars >>

\* data.list_bpms()
CallListBpms ==
    MethodCall("list_bpms", << >>, list_bpms(Self), StoredAfterQuery(Self))

\* data.get(bpm, component)
CallGet(bpm, component) ==
    MethodCall("get", << bpm, component >>,
               IF pc = "loaded" THEN SDDSGet(sdds, bpm, component)
               ELSE ParenGet(paren, bpm, component),
               StoredAfterQuery(Self))

\* data.summary_lengths()
CallSummaryLengths ==
    MethodCall("summary_lengths", << >>, summary_lengths(Self),
               StoredAfterQuery(Self))

\* data.summary_stats(percentiles)
CallSummaryStats(percentiles) ==
    MethodCall("summary_stats", percentiles,
               summary_stats(Self, percentiles), StoredAfterQuery(Self))

\* bpm.to_data(path, ...) on the BPMDataSDDS instance
CallToData(call) ==
    /\ pc = "loaded"
    /\ MethodCall("to_data", call,
                  ToDataText(list_bpms(sdds),
                             [n \in DOMAIN sdds |->
                                 ToDataArrays(sdds, n, call)], call),
                  StoredAfterToData(sdds, call))

\* data.to_sdds(path, ...) on the BPMDataParen instance
CallToSdds(call) ==
    /\ pc = "ploaded"
    /\ LET N == ToSddsTurns(paren, call)
       IN  MethodCall("to_sdds", call,
                      ToSddsText(list_bpms(paren),
                                 [n \in DOMAIN paren |->
                                     ToSddsArrays(paren, n, N)], call, N),
                      StoredAfterToSdds(paren, call))

(***************************************************************************)
(* The specifications.                                                     *)
(***************************************************************************)
\* A conversion row -> paren and the re-reading of what it wrote.
Next ==
    \/ FromFileSDDS
    \/ \E call \in ToDataCalls : ToData(call)
    \/ FromFileParen

Spec == Init /\ [][Next]_vars

\* Lookups on the two Datasets of a conversion with default arguments.
NextGet ==
    \/ FromFileSDDS
    \/ ToData(DefaultCall)
    \/ FromFileParen
    \/ \E bpm \in GetNames, component \in GetComponents :
            GetSDDS(bpm, component)
    \/ \E bpm \in GetNames, component \in GetComponents :
            GetParen(bpm, component)

SpecGet == Init /\ [][NextGet]_vars

\* Turn normalization of arrays of up to MaxTurns samples.
InitNorm == InitWith(<< >>)

NextNorm ==
    \/ \E a \in NormArrays, N \in 0..MaxTurns : Normalize(a, N)
    \/ NormalizeAgain

SpecNorm == InitNorm /\ [][NextNorm]_vars

\* A conversion paren -> row and the re-reading of what it wrote.
InitParen ==
    \E entries \in ParenFiles :
        /\ input = entries
        /\ dataText = ParenText(entries)
        /\ sddsText = << >>
        /\ pc = "pstart"
        /\ sdds = EmptyData
        /\ tdCall = << >>
        /\ tdArrays = EmptyData
        /\ paren = EmptyData
        /\ getRes = NoGet
        /\ norm = NoNorm
        /\ summ = NoSumm
        /\ fs = EmptyData
        /\ drv = NoDrv

NextSdds ==
    \/ ReadParen
    \/ \E call \in ToSddsCalls : ToSdds(call)
    \/ RereadSDDS

SpecSdds == InitParen /\ [][NextSdds]_vars

\* A run of the batch driver on a folder.
InitDriver ==
    /\ fs \in Folders
    /\ drv = NoDrv
    /\ input = << >>
    /\ sddsText = << >>
    /\ dataText = << >>
    /\ pc = "start"
    /\ sdds = EmptyData
    /\ tdCall = << >>
    /\ tdArrays = EmptyData
    /\ paren = EmptyData
    /\ getRes = NoGet
    /\ norm = NoNorm
    /\ summ = NoSumm

NextDriver ==
    \/ \E args \in MainArgs : MainStart(args)
    \/ MainConvert
    \/ MainReturn

SpecDriver == InitDriver /\ [][NextDriver]_vars

\* Any sequence of method calls on a Dataset of either class: lookups, the
\* summaries, to_data with and without z, scale and header, to_sdds with and
\* without turns, ring id and header.
InitSession ==
    \/ Init /\ Len(input) <= MaxSessionInput
    \/ InitParen /\ Len(input) <= MaxSessionInput

NextSession ==
    \/ FromFileSDDS
    \/ ReadParen
    \/ CallListBpms
    \/ \E bpm \in { << "A" >>, << "Q" >> },
          component \in { << "x" >>, << " ", "Y", "\t" >> } :
            CallGet(bpm, component)
    \/ CallSummaryLengths
    \/ \E percentiles \in PercentileArgs : CallSummaryStats(percentiles)
    \/ \E call \in { c \in LibraryCalls : c.columns = 2 } : CallToData(call)
    \/ \E call \in { c \in ToSddsCalls : c.turns \in { << >>, << 1 >> } } :
            CallToSdds(call)

SpecSession == InitSession /\ [][NextSession]_vars




(***************************************************************************)
(* What the claims are stated with.                                        *)
(***************************************************************************)
\* The name holds a double quote.
HasQuote(name) == \E i \in 1..Len(name) : name[i] = "\""

\* No BPM name of the Dataset holds a double quote.
QuoteFree(data) == \A n \in DOMAIN data : ~HasQuote(n)

\* The number format renders v exactly.
RendersExactly(v) == RoundSig(v) = v

\* The samples the input lines carry for plane p of BPM n, in file order.
PlaneSamples(lines, p, n) ==
    Concat([i \in 1..Len(lines) |->
              IF lines[i].plane = p /\ lines[i].name = n THEN lines[i].nums
              ELSE << >>])

\* The BPM names of the lines the format accepts.
AcceptedNames(lines) ==
    { lines[i].name : i \in { j \in 1..Len(lines) : lines[j].plane # -1 } }

\* k zeros.
ZeroArray(k) == [i \in 1..k |-> Zero]

\* r is d without its first sample, each sample times scale.
ShiftedScaled(r, d, scale) ==
    /\ Len(r) = Len(d) - 1
    /\ \A i \in 1..Len(r) :
          RendersExactly(Mul(d[i + 1], scale))
          => NumEq(r[i], Mul(d[i + 1], scale))

RoundTripHolds ==
    /\ DOMAIN paren = DOMAIN sdds
    /\ \A n \in DOMAIN sdds :
          /\ ShiftedScaled(paren[n].x, sdds[n].x, tdCall.scale)
          /\ ShiftedScaled(paren[n].y, sdds[n].y, tdCall.scale)

\* C1 as stated: for every Dataset read from a row file and every scale,
\* with or without a header, re-reading what to_data wrote yields the same
\* BPM names, and x and y shifted by the dropped first sample and scaled.
C1_RoundTripEveryDataset == pc = "reread" => RoundTripHolds

\* C1, amended: the round trip row -> paren -> read recovers the BPM names
\* and the shifted, scaled x and y of every Dataset whose BPM names hold no
\* double quote (an entry whose name holds one is not matched on re-read).
C1_RoundTrip == (pc = "reread" /\ QuoteFree(sdds)) => RoundTripHolds

\* Two BPMs, a header, a scale other than 1 and samples that survive.
C1_Witness ==
    /\ pc = "reread"
    /\ QuoteFree(sdds)
    /\ Cardinality(DOMAIN sdds) = 2
    /\ tdCall.header_lines # << >>
    /\ tdCall.scale # Dec(1, 1, 0)
    /\ \E n \in DOMAIN paren : Len(paren[n].x) >= 1 /\ Len(paren[n].y) >= 2

Max0(k) == IF k < 0 THEN 0 ELSE k

\* C3: to_data drops exactly the first sample: the arrays it formats have
\* the lengths max(len(x)-1, 0), max(len(y)-1, 0), max(len(x)-1, 0), and
\* element i of x and y is the scaled input element i+1.
C3_DropFirst ==
    pc \in {"written", "reread"}
    => /\ DOMAIN tdArrays = DOMAIN sdds
       /\ \A n \in DOMAIN sdds :
            LET w == tdArrays[n]
                d == sdds[n]
            IN  /\ Len(w.x) = Max0(Len(d.x) - 1)
                /\ Len(w.y) = Max0(Len(d.y) - 1)
                /\ Len(w.z) = Max0(Len(d.x) - 1)
                /\ \A i \in 1..Len(w.x) :
                      w.x[i] = Mul(d.x[i + 1], tdCall.scale)
                /\ \A i \in 1..Len(w.y) :
                      w.y[i] = Mul(d.y[i + 1], tdCall.scale)

\* A BPM whose y is longer than its x: z follows x.
C3_Witness ==
    /\ pc = "written"
    /\ \E n \in DOMAIN sdds :
          /\ Len(sdds[n].x) < Len(sdds[n].y)
          /\ Len(tdArrays[n].y) >= 2
          /\ Len(tdArrays[n].z) < Len(tdArrays[n].y)

C5_Accumulation ==
    pc # "start"
    => /\ DOMAIN sdds = AcceptedNames(input)
       /\ \A n \in DOMAIN sdds :
            LET cx == PlaneSamples(input, 0, n)
                cy == PlaneSamples(input, 1, n)
            IN  /\ cx # << >> => sdds[n].x = cx
                /\ cy # << >> => sdds[n].y = cy

\* Two different lines of the same plane and BPM, concatenated.
C5_Witness ==
    /\ pc = "loaded"
    /\ Len(input) = 2
    /\ input[1].plane = 0 /\ input[2].plane = 0
    /\ input[1].name = input[2].name
    /\ input[1].nums # input[2].nums
    /\ Len(sdds[input[1].name].x) = 3

\* C6: a BPM fed by one plane only has the other plane and z zero-filled
\* to the fed plane's length; with both planes fed, x and y keep their own
\* lengths and z is zeros of x's length.
C6_Mirroring ==
    pc # "start"
    => \A n \in DOMAIN sdds :
          LET cx == PlaneSamples(input, 0, n)
              cy == PlaneSamples(input, 1, n)
              d  == sdds[n]
          IN  /\ (cx # << >> /\ cy = << >>)
                 => /\ d.x = cx
                    /\ d.y = ZeroArray(Len(cx))
                    /\ d.z = ZeroArray(Len(cx))
              /\ (cx = << >> /\ cy # << >>)
                 => /\ d.y = cy
                    /\ d.x = ZeroArray(Len(cy))
                    /\ d.z = ZeroArray(Len(cy))
              /\ (cx # << >> /\ cy # << >>)
                 => /\ Len(d.x) = Len(cx) /\ Len(d.y) = Len(cy)
                    /\ d.z = ZeroArray(Len(cx))

\* A BPM fed by plane-1 lines only, and one fed by both planes with
\* different lengths.
C6_Witness ==
    /\ pc = "loaded"
    /\ \E n \in DOMAIN sdds :
          /\ PlaneSamples(input, 0, n) = << >>
          /\ Len(sdds[n].x) = 3


\* The component the selector names: c up to case, whitespace around it.
UpperOf(c) == CASE c = "x" -> "X" [] c = "y" -> "Y" [] c = "z" -> "Z"

Selects(component, c) ==
    \E i \in 1..Len(component) :
        /\ component[i] \in {c, UpperOf(c)}
        /\ \A j \in (1..Len(component)) \ {i} : component[j] \in Whitespace

ValidSelector(component) == \E c \in {"x", "y", "z"} : Selects(component, c)

\* The interpolated texts of a message, in order.
IsText(piece) == "text" \in DOMAIN piece
TextsOf(msg) ==
    LET ps == SelectSeq(msg, IsText) IN [i \in 1..Len(ps) |-> ps[i].text]

\* The lookup failed with a not-found error whose message names the
\* requested BPM and then every BPM of data, in ascending order.
NotFoundContract(res, data) ==
    /\ res.ret.kind = "KeyError"
    /\ LET t == TextsOf(res.ret.msg)
       IN  /\ Len(t) = 1 + Cardinality(DOMAIN data)
           /\ t[1] = res.bpm
           /\ { t[i] : i \in 2..Len(t) } = DOMAIN data
           /\ \A i \in 2..(Len(t) - 1) : LessText(t[i], t[i + 1])

\* C7: on a row-format Dataset, get with a valid component and a BPM that
\* is not loaded fails with a not-found error naming the BPM and listing
\* every loaded BPM in ascending order; the Dataset is unchanged.
C7_NotFoundSDDS ==
    /\ [](( /\ getRes.cls = "BPMDataSDDS"
            /\ ValidSelector(getRes.component)
            /\ getRes.bpm \notin DOMAIN sdds )
          => NotFoundContract(getRes, sdds))
    /\ [][( /\ getRes' # getRes
            /\ getRes'.cls = "BPMDataSDDS"
            /\ getRes'.ret.kind = "KeyError" )
          => sdds' = sdds]_vars

\* A failed lookup on a Dataset of two BPMs.
C7_Witness ==
    /\ getRes.cls = "BPMDataSDDS"
    /\ getRes.ret.kind = "KeyError"
    /\ Cardinality(DOMAIN sdds) = 2

\* C8: on a paren-format Dataset, a lookup of a BPM that is not loaded
\* fails with a not-found error naming the key and listing every loaded
\* BPM, sorted.
C8_NotFoundParen ==
    ( /\ getRes.cls = "BPMDataParen"
      /\ ValidSelector(getRes.component)
      /\ getRes.bpm \notin DOMAIN paren )
    => NotFoundContract(getRes, paren)

\* C9: get of either class takes the selector up to case and surrounding
\* whitespace and returns the stored array; any other selector is rejected,
\* whatever the BPM name; no lookup changes a Dataset.
C9_Selector ==
    /\ [](getRes.cls # "none"
          => LET data == IF getRes.cls = "BPMDataSDDS" THEN sdds ELSE paren
             IN  /\ ~ValidSelector(getRes.component)
                    => getRes.ret.kind = "ValueError"
                 /\ \A c \in {"x", "y", "z"} :
                       ( /\ Selects(getRes.component, c)
                         /\ getRes.bpm \in DOMAIN data )
                       => /\ getRes.ret.kind = "ok"
                          /\ getRes.ret.value = data[getRes.bpm][c])
    /\ [][(getRes' # getRes /\ getRes'.cls # "none")
          => (sdds' = sdds /\ paren' = paren)]_vars

\* An upper-case selector with whitespace around it, answered with y.
C9_Witness ==
    /\ getRes.cls = "BPMDataParen"
    /\ getRes.component = << " ", "Y", "\t" >>
    /\ getRes.ret.kind = "ok"
    /\ Len(getRes.ret.value) >= 1

\* C10: normalize(a, N) has length N; it is a when len(a) = N, the first N
\* samples of a when len(a) > N, a followed by N - len(a) zeros when
\* len(a) < N; normalizing the result to N again changes nothing.
C10_Normalize ==
    norm.N >= 0
    => /\ Len(norm.r) = norm.N
       /\ Len(norm.a) = norm.N => norm.r = norm.a
       /\ Len(norm.a) > norm.N
          => \A i \in 1..norm.N : norm.r[i] = norm.a[i]
       /\ Len(norm.a) < norm.N
          => /\ \A i \in 1..Len(norm.a) : norm.r[i] = norm.a[i]
             /\ \A i \in (Len(norm.a) + 1)..norm.N : norm.r[i] = Zero
       /\ norm.again => norm.r = norm.a

\* A padded array normalized again.
C10_Witness ==
    /\ norm.again
    /\ norm.N >= 2
    /\ norm.r[1] # Zero
    /\ norm.r[norm.N] = Zero


\* The lines of a row-format text that are no comment lines.
IsDataLine(l) == l = << >> \/ l[1] # "#"
SddsBodyLines(t) == SelectSeq(SplitLines(t), IsDataLine)

HasPrefix(l, pre) == Len(l) >= Len(pre) /\ SubSeq(l, 1, Len(pre)) = pre
AfterPrefix(l, pre) == SubSeq(l, Len(pre) + 1, Len(l))

TurnsLabel ==
    << "#", " ", "n", "u", "m", "b", "e", "r", " ", "o", "f", " ", "t",
       "u", "r", "n", "s", " ", ":", " " >>
MonitorsLabel ==
    << "#", " ", "n", "u", "m", "b", "e", "r", " ", "o", "f", " ", "m",
       "o", "n", "i", "t", "o", "r", "s", " ", ":", " " >>

\* The numbers the header lines that start with label declare.
DeclaredValues(t, label) ==
    LET ls  == SplitLines(t)
        hit == SelectSeq(ls, LAMBDA l : HasPrefix(l, label))
    IN  Concat([i \in 1..Len(hit) |-> ParseNums(AfterPrefix(hit[i], label))])

\* The natural number k as a sample.
Nat2Dec(k) == Dec(1, k, 0)

\* Line l is "<tag> <name> " followed by exactly N values: the samples of a
\* from index 0, cut or zero-padded to N.
LineCarries(l, tag, name, a, N) ==
    LET pre  == << tag, " " >> \o name \o << " " >>
        vals == ParseNums(AfterPrefix(l, pre))
    IN  /\ HasPrefix(l, pre)
        /\ NumEq(Nat2Dec(Len(vals)), N)
        /\ \A k \in 1..Len(vals) :
              NumEq(vals[k], IF k <= Len(a) THEN RoundSig(a[k]) ELSE Zero)

\* Header and body of the written row file agree with the Dataset.
SddsConsistent ==
    LET names == SortedTexts(DOMAIN paren)
        body  == SddsBodyLines(sddsText)
        turns == DeclaredValues(sddsText, TurnsLabel)
        mons  == DeclaredValues(sddsText, MonitorsLabel)
    IN  /\ Len(turns) = 1 /\ Len(mons) = 1
        /\ NumEq(mons[1], Nat2Dec(Len(names)))
        /\ Len(body) = 2 * Len(names)
        /\ \A i \in 1..Len(names) :
              /\ LineCarries(body[2 * i - 1], "0", names[i],
                             paren[names[i]].x, turns[1])
              /\ LineCarries(body[2 * i], "1", names[i],
                             paren[names[i]].y, turns[1])

\* No BPM name of the Dataset holds a line break.
LineBreaks == {"\n", "\r", "\f"}
NoLineBreak(data) ==
    \A n \in DOMAIN data : \A i \in 1..Len(n) : n[i] \notin LineBreaks

\* C11 as stated: for every Dataset and every N >= 0 the body to_sdds
\* writes has two lines per BPM in ascending name order, plane 0 then
\* plane 1, each with exactly N values (the samples from index 0, cut or
\* zero-padded), no z, and the header declares N turns and the number of
\* BPMs.
C11_SddsConsistentEveryDataset ==
    pc \in {"pwritten", "pread"} => SddsConsistent

\* C11, amended: the same, for every Dataset whose BPM names hold no line
\* break (a name that holds one is written across two lines).
C11_SddsConsistent ==
    (pc \in {"pwritten", "pread"} /\ NoLineBreak(paren)) => SddsConsistent

\* A given N that cuts the x of one BPM and pads the x of another, the
\* second with an empty y.
C11_Witness ==
    /\ pc = "pwritten"
    /\ NoLineBreak(paren)
    /\ tdCall.turns = << 2 >>
    /\ \E n, m \in DOMAIN paren :
          /\ Len(paren[n].x) = 3
          /\ Len(paren[m].x) = 1 /\ paren[m].y = << >>

\* The number of turns the written header declares is n.
DeclaresTurns(n) ==
    LET turns == DeclaredValues(sddsText, TurnsLabel)
    IN  Len(turns) = 1 /\ NumEq(turns[1], Nat2Dec(n))

\* n is a most frequent x length of the Dataset, the first such in name
\* order.
FirstMostFrequent(data, n) ==
    LET names    == SortedTexts(DOMAIN data)
        len(i)   == Len(data[names[i]].x)
        count(v) == Cardinality({k \in 1..Len(names) : len(k) = v})
    IN  \E i \in 1..Len(names) :
           /\ len(i) = n
           /\ \A j \in 1..Len(names) : count(len(j)) <= count(n)
           /\ \A j \in 1..(i - 1) : count(len(j)) < count(n)

\* C12: without a turn count, N is a most frequent x length, the first in
\* name order among tied ones, and 0 for the empty Dataset; a given turn
\* count, 0 included, is used unchanged.
C12_TargetLength ==
    pc \in {"pwritten", "pread"}
    => IF tdCall.turns # << >> THEN DeclaresTurns(tdCall.turns[1])
       ELSE IF DOMAIN paren = {} THEN DeclaresTurns(0)
       ELSE \E n \in 0..MaxTurns :
               DeclaresTurns(n) /\ FirstMostFrequent(paren, n)

\* Without a turn count: three BPMs of which two share the shorter x
\* length, so that the most frequent length is not the largest.
C12_Witness ==
    /\ pc = "pwritten"
    /\ tdCall.turns = << >>
    /\ Cardinality(DOMAIN paren) = 3
    /\ DeclaresTurns(1)
    /\ \E n \in DOMAIN paren : Len(paren[n].x) = 3


\* Entry i is the last entry of the file with its name.
LastOfName(entries, i) ==
    /\ entries[i].name # << >>
    /\ \A j \in (i + 1)..Len(entries) : entries[j].name # entries[i].name

HasContinuation(text) == \E i \in 1..Len(text) : text[i] = "\\"

\* C13: the line continuations are removed before entries are matched and
\* numbers tokenized: an entry whose array body holds a literal split by a
\* continuation yields the samples of the body with the literal unsplit.
C13_Continuation ==
    pc \in {"ploaded", "pwritten", "pread"}
    => \A i \in 1..Len(input) :
          (HasContinuation(input[i].text) /\ LastOfName(input, i))
          => /\ input[i].name \in DOMAIN paren
             /\ paren[input[i].name] =
                   [x |-> input[i].x, y |-> input[i].y, z |-> input[i].z]

\* A file whose second entry holds the split literals.
C13_Witness ==
    /\ pc = "ploaded"
    /\ Len(input) = 2
    /\ HasContinuation(input[2].text)
    /\ Cardinality(DOMAIN paren) = 2
    /\ \E n \in DOMAIN paren : paren[n].x = << Dec(1, 12, 0), Dec(-1, 3, 0) >>


\* The outcome a status string stands for in main's if/elif chain.
OutcomeOf(status) ==
    CASE status = StatusOk -> "ok"
      [] status = StatusSkipped -> "skipped_exists"
      [] status = StatusDryRun -> "dry_run"
      [] OTHER -> "error"

\* The files of the run with the given outcome.
WithOutcome(o) ==
    { i \in 1..Len(drv.log) : OutcomeOf(drv.log[i].status) = o }

\* The status says more than the bare word "error".
HasMessage(status) == Len(status) > 1

\* C14: every matched file gets exactly one of the four outcomes and is
\* counted in exactly one counter, so that ok + skipped + dry-run + errors
\* is the number of matched files, and every error outcome carries a
\* message, also when the matched path is not a regular file.
C14_Outcomes ==
    (drv.phase = "done" /\ drv.args.folder = FolderName)
    => /\ Len(drv.log) = Len(drv.files)
       /\ \A i \in 1..Len(drv.log) : drv.log[i].src = drv.files[i]
       /\ drv.ok = Cardinality(WithOutcome("ok"))
       /\ drv.skipped = Cardinality(WithOutcome("skipped_exists"))
       /\ drv.dry = Cardinality(WithOutcome("dry_run"))
       /\ drv.errors = Cardinality(WithOutcome("error"))
       /\ drv.ok + drv.skipped + drv.dry + drv.errors = Len(drv.files)
       /\ \A i \in WithOutcome("error") : HasMessage(drv.log[i].status)

\* C15 as stated: for every invocation of main the exit status is non-zero
\* if and only if some file produced an error outcome.
C15_ExitIffError ==
    drv.phase = "done" => (drv.exit # 0 <=> WithOutcome("error") # {})

\* C15, amended: when the folder argument is an existing directory the exit
\* status is 1 if some file produced an error outcome and 0 otherwise; when
\* it is not, main returns 2 and no file is processed.
C15_ExitStatus ==
    drv.phase = "done"
    => IF drv.args.folder = FolderName
       THEN /\ drv.exit \in {0, 1}
            /\ drv.exit = 1 <=> WithOutcome("error") # {}
       ELSE drv.exit = 2 /\ drv.log = << >>

\* A run that ends with status 1 after one success and one error.
C15_Witness ==
    /\ drv.phase = "done"
    /\ drv.exit = 1
    /\ WithOutcome("ok") # {}
    /\ WithOutcome("error") # {}

\* The file of that name is the same file before and after the step.
SameFile(n) ==
    \/ n \notin DOMAIN fs /\ n \notin DOMAIN fs'
    \/ n \in DOMAIN fs /\ n \in DOMAIN fs' /\ fs'[n] = fs[n]

\* C16: convert_one opens the destination for writing, and the destination
\* changes, only when dry_run is false and the destination did not exist or
\* overwrite is true; with dry_run, or with an existing destination and no
\* overwrite, the destination is as before and the source is not converted.
C16_DestinationProtected ==
    [][(drv.phase = "loop" /\ drv'.phase = "loop" /\ drv'.idx # drv.idx)
       => LET e    == drv'.log[Len(drv'.log)]
              args == drv.args
              dst  == DstPath(e.src, args.suffix)
              may  == ~args.dry_run /\ (dst \notin DOMAIN fs \/ args.overwrite)
          IN  /\ (e.wrote \/ ~SameFile(dst)) => may
              /\ ~may => /\ SameFile(dst)
                         /\ ~e.wrote
                         /\ OutcomeOf(e.status) # "ok"]_vars

\* A run without --overwrite that skipped a file whose destination existed,
\* left that destination as it was, and converted another file.
C16_Witness ==
    /\ drv.phase = "done"
    /\ ~drv.args.overwrite
    /\ \E i, j \in 1..Len(drv.log) :
          /\ drv.log[i].status = StatusSkipped
          /\ fs[drv.log[i].dst].text = << "o", "l", "d" >>
          /\ drv.log[j].wrote /\ drv.log[j].status = StatusOk

\* C17: no destination path is written by the conversions of two different
\* source files, for every pattern, suffix and overwrite.
C17_OneWriterPerOutput ==
    drv.phase \in {"loop", "done"}
    => \A i, j \in 1..Len(drv.log) :
          ( /\ drv.log[i].wrote /\ drv.log[j].wrote
            /\ drv.log[i].src # drv.log[j].src )
          => drv.log[i].dst # drv.log[j].dst


RowsPerBPM(rows, data) ==
    /\ Len(rows) = Cardinality(DOMAIN data)
    /\ { rows[i].BPM : i \in 1..Len(rows) } = DOMAIN data
    /\ \A i \in 1..(Len(rows) - 1) : LessText(rows[i].BPM, rows[i + 1].BPM)

\* C19: for every Dataset of either class, the empty one included,
\* summary_lengths returns without error one row per BPM, in ascending name
\* order, whose len_x, len_y, len_z are the element counts of the BPM's
\* stored x, y, z.
C19_SummaryLengths ==
    (summ.cls # "none" /\ summ.op = "summary_lengths")
    => /\ ~summ.ret.raised
       /\ RowsPerBPM(summ.ret.rows, Self)
       /\ \A i \in 1..Len(summ.ret.rows) :
             LET r == summ.ret.rows[i] IN
             /\ r.len_x = Len(Self[r.BPM].x)
             /\ r.len_y = Len(Self[r.BPM].y)
             /\ r.len_z = Len(Self[r.BPM].z)

\* The statistics of a row other than n.
OtherStats(r) ==
    { r.mean, r.std, r.min, r.max, r.median } \cup { r.p[q] : q \in DOMAIN r.p }

\* C20: summary_stats returns one row per (BPM, component), three per BPM,
\* with n the length of the component; for a zero-length component n = 0 and
\* the mean, std, min, max, median and every requested percentile are
\* undefined, not zero, and nothing is raised; for a component of length 1
\* the standard deviation is 0.
C20_SummaryStats ==
    (summ.cls # "none" /\ summ.op = "summary_stats")
    => /\ ~summ.ret.raised
       /\ Len(summ.ret.rows) = 3 * Cardinality(DOMAIN Self)
       /\ \A name \in DOMAIN Self : \A c \in {"x", "y", "z"} :
             \E i \in 1..Len(summ.ret.rows) :
                LET r == summ.ret.rows[i] IN
                /\ r.BPM = name /\ r.component = c
                /\ \A j \in 1..Len(summ.ret.rows) :
                      ( /\ summ.ret.rows[j].BPM = name
                        /\ summ.ret.rows[j].component = c ) => j = i
                /\ r.n = Len(Self[name][c])
                /\ DOMAIN r.p = { summ.args[k] : k \in 1..Len(summ.args) }
                /\ r.n = 0 => OtherStats(r) = { NaN }
                /\ r.n = 1 => r.std = Float(<< Zero >>)


\* The number of backslash-newline pairs in a text.
BackslashNewlines(t) ==
    Cardinality({ i \in 1..(Len(t) - 1) : t[i] = "\\" /\ t[i + 1] = "\n" })

\* C21: a run with --wrap N writes .data files in which every array has a
\* backslash-newline after every N values; so a written file one of whose
\* arrays holds more than N values holds a backslash-newline.
C21_Wrap ==
    (drv.phase \in {"loop", "done"} /\ drv.args.wrap # << >>)
    => \A i \in 1..Len(drv.log) :
          LET e    == drv.log[i]
              data == SDDSFromFile(fs[e.src].text)
              call == ConvertOneCall(drv.args)
          IN  ( /\ e.status = StatusOk
                /\ \E n \in DOMAIN data : \E c \in {"x", "y", "z"} :
                      Len(ToDataArrays(data, n, call)[c]) > drv.args.wrap[1] )
              => BackslashNewlines(fs[e.dst].text) > 0


\* C26: whenever convert_one returns an error outcome, whatever step failed,
\* the destination is exactly as it was before the call: none is created,
\* and one that existed is neither truncated nor modified.
C26_ErrorLeavesDestination ==
    [][(drv.phase = "loop" /\ drv'.phase = "loop" /\ drv'.idx # drv.idx)
       => LET e == drv'.log[Len(drv'.log)]
          IN  OutcomeOf(e.status) = "error"
              => SameFile(DstPath(e.src, drv.args.suffix))]_vars

\* C30: convert_one with dry_run reports the dry-run outcome exactly when
\* the same call without dry_run, on the same files, would attempt the
\* conversion, and reports skipped_exists exactly when that call would skip
\* the file.  (A dry run writes nothing, so fs is the folder of every call.)
C30_DryRunShows ==
    (drv.phase \in {"loop", "done"} /\ drv.args.dry_run)
    => \A i \in 1..Len(drv.log) :
          LET e    == drv.log[i]
              real == convert_one(fs, e.src,
                                  [drv.args EXCEPT !.dry_run = FALSE])
          IN  /\ e.status = StatusDryRun
                 <=> real.status \notin {StatusSkipped, StatusError}
              /\ e.status = StatusSkipped <=> real.status = StatusSkipped


\* The number of occurrences of the character c in a text.
CountChar(t, c) == Cardinality({ i \in 1..Len(t) : t[i] = c })

\* No "{" or "}" in a text.
BraceFree(t) == \A i \in 1..Len(t) : t[i] \notin Braces

\* The file framing of to_data: the entries of the names in ascending order,
\* each once, a comma between consecutive entries and none after the last,
\* within one brace pair; with a header, one more "{" before the header
\* group and one more "}" at the end of the file.
Framed ==
    LET names   == list_bpms(sdds)
        entries == [i \in 1..Len(names) |->
                      EntryText(names[i], tdArrays[names[i]], tdCall.columns)]
        body    == << "{" >> \o Join(<< ",", "\n" >>, entries)
                   \o (IF names = << >> THEN << >> ELSE << "\n" >>)
                   \o << "}" >>
        head    == HeaderText(tdCall.header_lines)
    IN  /\ { names[i] : i \in 1..Len(names) } = DOMAIN sdds
        /\ \A i \in 1..(Len(names) - 1) : LessText(names[i], names[i + 1])
        /\ dataText = IF tdCall.header_lines = << >> THEN body
                      ELSE << "{" >> \o SubSeq(head, 2, Len(head)) \o body
                           \o << "}" >>

BracesBalanced == CountChar(dataText, "{") = CountChar(dataText, "}")

\* C22 as stated: the framing above, and the braces of the written file are
\* balanced, for every Dataset (the empty one included), with and without a
\* header.
C22_FramingEveryHeader ==
    pc = "written" => (Framed /\ BracesBalanced)

\* C22, amended: the framing above for every Dataset and header; the braces
\* of the written file are balanced when no BPM name and no header line
\* holds a brace.
C22_Framing ==
    pc = "written"
    => /\ Framed
       /\ ( /\ \A n \in DOMAIN sdds : BraceFree(n)
            /\ \A i \in 1..Len(tdCall.header_lines) :
                  BraceFree(tdCall.header_lines[i]) )
          => BracesBalanced

\* A file of two BPMs written with a brace-free header.
C22_Witness ==
    /\ pc = "written"
    /\ Cardinality(DOMAIN sdds) = 2
    /\ Len(tdCall.header_lines) = 2
    /\ BracesBalanced

\* C23: the header is written first with its content unchanged: the file
\* starts with the header's braces, and the text between them is the
\* supplied header token(s), character for character and in order.
C23_HeaderUnchanged ==
    (pc = "written" /\ tdCall.header_lines # << >>)
    => LET given == Concat(tdCall.header_lines)
       IN  SubSeq(dataText, 1, Len(given) + 3)
             = << "{", "{" >> \o given \o << "}" >>

\* The rendering of array a that C24 describes for the column count c: the
\* values in order, a comma and a newline after every c-th value that is not
\* the last (c > 0), a comma after every other value that is not the last.
Wrapped(a, c) ==
    Concat([i \in 1..Len(a) |->
              FmtDefault(a[i])
              \o (IF i = Len(a) THEN << >>
                  ELSE IF c > 0 /\ i % c = 0 THEN << ",", "\n" >>
                  ELSE << "," >>)])

\* t holds sub as a run of consecutive characters.
Holds(t, sub) ==
    \E i \in 0..(Len(t) - Len(sub)) : SubSeq(t, i + 1, i + Len(sub)) = sub

C27_NoEmptyBPM ==
    pc \in {"loaded", "written", "reread"}
    => \A n \in DOMAIN sdds :
          /\ sdds[n].x # << >> /\ sdds[n].y # << >> /\ sdds[n].z # << >>
          /\ Len(sdds[n].z) = Len(sdds[n].x)
          /\ \E i \in 1..Len(input) :
                input[i].name = n /\ input[i].nums # << >>

\* A file with a well-formed line that carries no number, read into a
\* Dataset that holds another BPM but not the one of that line.
C27_Witness ==
    /\ pc = "loaded"
    /\ \E i \in 1..Len(input) :
          input[i].text = << "1", " ", "A", " ", "x" >>
    /\ sdds # EmptyData
    /\ << "A" >> \notin DOMAIN sdds


\* The run of characters between the first two double quotes of an entry.
Quoted(text) ==
    SubSeq(text, FirstIn(text, 1, {"\""}) + 1,
           FirstIn(text, FirstIn(text, 1, {"\""}) + 1, {"\""}) - 1)

\* A run without its leading whitespace; of a run of whitespace only, the
\* last character.
SkipLeading(q) ==
    IF RunLen(q, 1, Whitespace) < Len(q)
    THEN SubSeq(q, RunLen(q, 1, Whitespace) + 1, Len(q))
    ELSE SubSeq(q, Len(q), Len(q))

\* The entries of the input file that are entries of the format.
Matched == { i \in 1..Len(input) : input[i].name # << >> }

C28_LastEntryWins ==
    pc \in {"ploaded", "pwritten", "pread"}
    => /\ DOMAIN paren = { input[i].name : i \in Matched }
       /\ \A i \in Matched :
             (\A j \in Matched : input[j].name = input[i].name => j <= i)
             => paren[input[i].name] =
                   [x |-> input[i].x, y |-> input[i].y, z |-> input[i].z]

\* A file with two entries of the name A, the one with x = 0.5 last.
C28_Witness ==
    /\ pc = "ploaded"
    /\ Cardinality({ i \in Matched : input[i].name = << "A" >> }) = 2
    /\ input[Len(input)].name = << "A" >>
    /\ input[Len(input)].x = << Dec(1, 5, -1) >>
    /\ paren[<< "A" >>].x = << Dec(1, 5, -1) >>

\* No BPM name of the Dataset holds a whitespace character.
WhitespaceFree(data) ==
    \A n \in DOMAIN data : \A i \in 1..Len(n) : n[i] \notin Whitespace

\* r has N samples: those of d from index 0, cut or followed by zeros, as
\* far as the number format renders them exactly.
NormalizedTo(r, d, N) ==
    /\ Len(r) = N
    /\ \A i \in 1..N :
          IF i <= Len(d)
          THEN RendersExactly(d[i]) => NumEq(r[i], d[i])
          ELSE NumEq(r[i], Zero)

\* C29: for every paren-format Dataset whose BPM names hold no whitespace,
\* reading with BPMDataSDDS.from_file what to_sdds wrote for the target N
\* yields, for N >= 1, the Dataset's BPM names with x and y cut or
\* zero-padded to N (for the values the number format renders exactly) and
\* z all zeros of length N; for N = 0 the data lines carry no values and
\* the re-read Dataset holds no BPM.
C29_ParenRoundTrip ==
    (pc = "pread" /\ WhitespaceFree(paren))
    => LET N == ToSddsTurns(paren, tdCall)
       IN  IF N >= 1
           THEN /\ DOMAIN sdds = DOMAIN paren
                /\ \A n \in DOMAIN paren :
                      /\ NormalizedTo(sdds[n].x, paren[n].x, N)
                      /\ NormalizedTo(sdds[n].y, paren[n].y, N)
                      /\ sdds[n].z = ZeroArray(N)
           ELSE /\ sdds = EmptyData
                /\ \A i \in 1..Len(SddsBodyLines(sddsText)) :
                      SddsBodyLines(sddsText)[i]
                         \in { << tag, " " >> \o n \o << " " >> :
                               tag \in {"0", "1"}, n \in DOMAIN paren }

\* Two BPMs re-read for N = 2: the x of one was cut, the x of the other
\* and an empty y were padded.
C29_Witness ==
    /\ pc = "pread"
    /\ WhitespaceFree(paren)
    /\ ToSddsTurns(paren, tdCall) = 2
    /\ \E n, m \in DOMAIN paren :
          /\ Len(paren[n].x) = 3 /\ Len(sdds[n].x) = 2
          /\ Len(paren[m].x) = 1 /\ paren[m].y = << >>
          /\ Len(sdds[m].x) = 2 /\ Len(sdds[m].y) = 2

=============================================================================
